---- MODULE Spec2Model ----
(***************************************************************************)
(* Chronicles of Time: the interaction core of the application.            *)
(*                                                                         *)
(*   App.tsx                       application state, sampling requests,   *)
(*                                 recording, gesture detection loop       *)
(*   components/ReadingOverlay.tsx TextParticleSystem: spawn effect and    *)
(*                                 per-frame physics of the glyph particles*)
(*                                 ParticleScene: the blended uniforms     *)
(*   components/MemoryPalace.tsx   layout of the saved memories, gesture   *)
(*                                 control                                 *)
(*   utils/audioStreamer.ts        AudioStreamer                           *)
(*   unnamed/part_001              image sampling, hand detector, sentiment*)
(*                                 analysis                                *)
(*                                                                         *)
(* Time is Date.now() in milliseconds.  A text is a sequence of one-       *)
(* character strings.  A glyph object is identified by its id; the id      *)
(* string of the source (random nonce + index + time) is taken to be       *)
(* unique per object, so ids are drawn from a running counter.             *)
(***************************************************************************)
EXTENDS Integers, Sequences, FiniteSets, TLC

VARIABLES
    now,                  \* Date.now()
    viewMode,             \* App: 'LIVE' | 'PALACE'
    readingMode,          \* App: readingMode
    finalizedTranscript,  \* App: finalizedTranscript (prop transcript of TextParticleSystem)
    voiceMemories,        \* App: voiceMemories
    savedMemories,        \* App: savedMemories
    sceneVersion,         \* App: sceneVersion
    particles,            \* App: particles (the point cloud), by the request that produced it
    pending,              \* processImageToParticles promises not yet settled
    requests,             \* number of sampling requests issued so far
    handData,             \* App: handData
    tps,                  \* TextParticleSystem: component state and refs
    nextId,               \* glyph objects created so far
    last,                 \* history: the latest operation and what its spawn effect did
    lastPointerRef,       \* App: lastPointerRef
    lastTimeRef,          \* App: lastTimeRef
    poll,                 \* history: the latest poll of detectLoop
    isRecording,          \* App: isRecording
    isRecordingRef,       \* App: isRecordingRef
    recognition,          \* the webkitSpeechRecognition session
    acquiring,            \* getUserMedia({audio}) calls of handleToggleRecording not yet settled
    micStreams,           \* microphone streams with a live audio track
    recorders,            \* MediaRecorder objects: state and stream
    mediaRecorderRef,     \* App: mediaRecorderRef
    timers,               \* active setInterval timers: the recorder each one slices
    sentimentIntervalRef, \* App: sentimentIntervalRef
    recLast,              \* history: the latest recording operation
    interimTranscript,    \* App: transcript (the interim speech result)
    sampler,              \* processImageToParticles: one call, its loop and its promise
    shownAtUpload,        \* history: the cloud displayed when handleUpload was called
    sentiment,            \* App: sentiment (sentimentRef follows it at every render)
    targetPositions,      \* MemoryPalace: targetPositions, by memory id
    analysing,            \* ondataavailable handlers awaiting analyzeAudioSentiment
    uniforms,             \* ParticleScene: uniforms.current, and the latest blend rates
    streamer,             \* AudioStreamer: its fields and the resources it opened
    gestureState          \* MemoryPalace: gestureState.current

gestureVars == << lastPointerRef, lastTimeRef, poll >>

recVars == << isRecording, isRecordingRef, recognition, acquiring, micStreams,
              recorders, mediaRecorderRef, timers, sentimentIntervalRef, recLast,
              analysing >>

widgetVars == << uniforms, streamer, gestureState >>

otherVars == << interimTranscript, sampler, shownAtUpload, sentiment, targetPositions,
                widgetVars >>

vars == << now, viewMode, readingMode, finalizedTranscript, voiceMemories,
           savedMemories, sceneVersion, particles, pending, requests,
           handData, tps, nextId, last, gestureVars, recVars, otherVars >>

----------------------------------------------------------------------------
(* Bounds of the model *)

MaxNow == 9001          \* ticks stop at this time
MaxGlyphs == 3          \* glyph objects created in one behaviour
MaxLongGlyphs == 1150   \* the same, in the behaviours with long transcripts
MaxRequests == 2        \* sampling requests issued in one behaviour
MaxVoice == 1           \* final speech results kept in voiceMemories
MaxMemories == 1        \* saved memories

TickSteps == {3000}

AppTickSteps == {9000}

SpeechTexts == { <<"H">> }

PropTexts == { << >>, <<"H">>, <<"H", "I">>, <<"Y", "O">> }

Rep(c, n) == [i \in 1..n |-> c]

\* long transcripts: a text, the same text with one more character, another text
LongTexts == { Rep("a", 300), Rep("a", 301), Rep("b", 250) }

----------------------------------------------------------------------------
(* Program constants of TextParticleSystem *)

MAX_CHARS == 500
CHARS_PER_RING == 50
holdDuration == 3500
duration == 2500
hardTimeout == 4000
staggerDelay == 80

\* the null value of a reference to an object
Null == [isNull |-> TRUE]
\* a sampling request: its number and the handler that issued it
Request(n, by) == [id |-> n, by |-> by]

\* setParticles([]): no cloud installed
NoCloud == Request(0, "none")

----------------------------------------------------------------------------
(* Helpers on texts, sequences and maps *)

StartsWith(s, p) == Len(p) <= Len(s) /\ SubSeq(s, 1, Len(p)) = p

Slice(s, k) == SubSeq(s, k + 1, Len(s))

Range(s) == { s[i] : i \in 1..Len(s) }

Min(a, b) == IF a < b THEN a ELSE b

Max(a, b) == IF a > b THEN a ELSE b

Abs(n) == IF n < 0 THEN -n ELSE n

Restrict(f, S) == [x \in S |-> f[x]]

Merge(f, g) == [x \in DOMAIN f \cup DOMAIN g |-> IF x \in DOMAIN g THEN g[x] ELSE f[x]]

RECURSIVE Join(_)
Join(ts) ==
    IF Len(ts) = 0 THEN << >>
    ELSE IF Len(ts) = 1 THEN ts[1]
    ELSE ts[1] \o <<" ">> \o Join(Tail(ts))

SilentMemory == <<"S", "i", "l", "e", "n", "t", " ", "M", "e", "m", "o", "r", "y">>

----------------------------------------------------------------------------
(* TextParticleSystem: component state *)

NoGlyphs == [x \in {} |-> Null]

FreshTps(sv) ==
    [ particles |-> << >>,
      physicsState |-> {},
      textRefs |-> {},
      glyphs |-> NoGlyphs,
      lastTranscriptRef |-> << >>,
      lastSceneVersionRef |-> sv,
      totalCharCountRef |-> 0,
      initialSpawnRef |-> FALSE ]

Unmounted == FreshTps(0)

NoRun == [mode |-> "none", created |-> << >>, evicted |-> << >>]

\* one new TextParticle: i is its 0-based index in the batch
NewParticle(char, i, globalIndex, t) ==
    [ char |-> char,
      phase |-> "spawn",
      spawnTime |-> t,
      morphTime |-> t + holdDuration,
      flyStartTime |-> 0,
      delay |-> i * staggerDelay,
      ringIndex |-> globalIndex \div CHARS_PER_RING,
      localIndex |-> globalIndex % CHARS_PER_RING,
      aim |-> "start",
      lerp |-> 0 ]

\* mutant of KeepNewest: slice(0, MAX_CHARS) keeps the oldest glyphs
KeepOldest(combined) ==
    IF Len(combined) > MAX_CHARS
    THEN SubSeq(combined, 1, MAX_CHARS)
    ELSE combined

\* setParticles updater: append the batch, keep the newest MAX_CHARS
KeepNewest(combined) ==
    IF Len(combined) > MAX_CHARS
    THEN SubSeq(combined, Len(combined) - MAX_CHARS + 1, Len(combined))
    ELSE combined

\* mutant of NewPart: a continuation spawns the whole text again
NewPartRespawnAll(currentText, previousText, isReset, isRestoring) == currentText

\* mutant of NewPart: the prefix test does not look at the scene reset
NewPartSuffixOnReset(currentText, previousText, isReset, isRestoring) ==
    IF StartsWith(currentText, previousText)
    THEN Slice(currentText, Len(previousText))
    ELSE currentText

\* mutant of NewPart: a changed text spawns only what lies beyond the length
\* of the previous text
NewPartBeyondOnChange(currentText, previousText, isReset, isRestoring) ==
    IF isRestoring THEN currentText
    ELSE Slice(currentText, Min(Len(previousText), Len(currentText)))

\* which part of the transcript the effect spawns
NewPart(currentText, previousText, isReset, isRestoring) ==
    IF isRestoring THEN currentText
    ELSE IF StartsWith(currentText, previousText) /\ ~isReset
         THEN Slice(currentText, Len(previousText))
         ELSE currentText

SpawnMode(currentText, previousText, isReset, isRestoring) ==
    IF isRestoring THEN "restore"
    ELSE IF StartsWith(currentText, previousText) /\ ~isReset THEN "append"
    ELSE "full"

\* the hard reset on a scene change without transcript
HardReset(st, sv) ==
    [ st EXCEPT !.particles = << >>,
                !.physicsState = {},
                !.textRefs = {},
                !.glyphs = NoGlyphs,
                !.lastTranscriptRef = << >>,
                !.totalCharCountRef = 0,
                !.initialSpawnRef = FALSE,
                !.lastSceneVersionRef = sv ]

\* mutant of SpawnBatch: the updater leaves the physics map as it is
SpawnBatchUnpruned(st, newPart, isRestoring, t, base) ==
    LET n == Len(newPart)
        ids == [k \in 1..n |-> base + k]
        objs == [id \in Range(ids) |->
                    LET i == id - base - 1
                        globalIndex == IF isRestoring THEN i
                                       ELSE st.totalCharCountRef + i
                    IN NewParticle(newPart[i + 1], i, globalIndex, t)]
        total == IF isRestoring THEN n ELSE st.totalCharCountRef + n
        physics1 == st.physicsState \cup Range(ids)
        combined == st.particles \o ids
        keep == KeepNewest(combined)
        over == Len(combined) > MAX_CHARS
        physics2 == physics1
        refs1 == IF over THEN st.textRefs \cap Range(keep) ELSE st.textRefs
        live == Range(keep) \cup physics2
    IN [ st |-> [ st EXCEPT !.particles = keep,
                            !.physicsState = physics2,
                            \* commit: every rendered <Text> registers its handle,
                            \* every unmounted one removes it
                            !.textRefs = (refs1 \cap Range(keep)) \cup Range(keep),
                            !.glyphs = Restrict(Merge(st.glyphs, objs), live),
                            !.totalCharCountRef = total ],
         created |-> ids,
         evicted |-> SubSeq(combined, 1, Len(combined) - Len(keep)) ]

\* the batch of new glyphs, the counter update, physics map, list and handles
SpawnBatch(st, newPart, isRestoring, t, base) ==
    LET n == Len(newPart)
        ids == [k \in 1..n |-> base + k]
        objs == [id \in Range(ids) |->
                    LET i == id - base - 1
                        globalIndex == IF isRestoring THEN i
                                       ELSE st.totalCharCountRef + i
                    IN NewParticle(newPart[i + 1], i, globalIndex, t)]
        total == IF isRestoring THEN n ELSE st.totalCharCountRef + n
        physics1 == st.physicsState \cup Range(ids)
        combined == st.particles \o ids
        keep == KeepNewest(combined)
        over == Len(combined) > MAX_CHARS
        physics2 == IF over THEN physics1 \cap Range(keep) ELSE physics1
        refs1 == IF over THEN st.textRefs \cap Range(keep) ELSE st.textRefs
        live == Range(keep) \cup physics2
    IN [ st |-> [ st EXCEPT !.particles = keep,
                            !.physicsState = physics2,
                            \* commit: every rendered <Text> registers its handle,
                            \* every unmounted one removes it
                            !.textRefs = (refs1 \cap Range(keep)) \cup Range(keep),
                            !.glyphs = Restrict(Merge(st.glyphs, objs), live),
                            !.totalCharCountRef = total ],
         created |-> ids,
         evicted |-> SubSeq(combined, 1, Len(combined) - Len(keep)) ]

\* useEffect(..., [transcript, sceneVersion]) of TextParticleSystem
SpawnEffect(st, transcript, sv, t, base) ==
    LET isReset == sv # st.lastSceneVersionRef
        isRestoring == isReset /\ Len(transcript) > 0
        st1 == IF isReset /\ ~isRestoring THEN HardReset(st, sv) ELSE st
    IN  IF Len(transcript) = 0
        THEN [ st |-> st1,
               log |-> [mode |-> IF isReset THEN "reset" ELSE "empty",
                        created |-> << >>, evicted |-> << >>] ]
        ELSE
        LET st2 == IF isRestoring /\ ~st1.initialSpawnRef
                   THEN [st1 EXCEPT !.lastTranscriptRef = << >>,
                                    !.initialSpawnRef = TRUE]
                   ELSE st1
            previousText == st2.lastTranscriptRef
            newPart == NewPart(transcript, previousText, isReset, isRestoring)
            b == IF Len(newPart) > 0
                 THEN SpawnBatch(st2, newPart, isRestoring, t, base)
                 ELSE [st |-> st2, created |-> << >>, evicted |-> << >>]
        IN [ st |-> [ b.st EXCEPT !.lastTranscriptRef = transcript,
                                  !.lastSceneVersionRef =
                                      IF isReset THEN sv ELSE @ ],
             log |-> [mode |-> SpawnMode(transcript, previousText, isReset, isRestoring),
                      created |-> b.created, evicted |-> b.evicted] ]

----------------------------------------------------------------------------
(* TextParticleSystem: physics loop, one glyph for one frame *)

\* progress = clamp(elapsed / duration, 0, 1), as its numerator over duration
Progress(elapsed) == Max(0, Min(duration, elapsed))

DockAim(hand) ==
    IF hand # Null /\ hand.detected
    THEN IF hand.gesture = "OPEN" THEN "open"
         ELSE IF hand.gesture = "SWIPE" THEN "swipe"
         ELSE IF hand.gesture = "CLOSED" THEN "closed"
         ELSE "ring"
    ELSE "ring"

\* lerpFactor in hundredths
DockLerp(hand) == IF hand # Null /\ hand.gesture = "CLOSED" THEN 20 ELSE 5

\* mutant of StepGlyph: a completed flight starts the life cycle again
StepGlyphRestart(p, t, hand) ==
    IF p.phase = "spawn" THEN
        IF t >= p.morphTime
        THEN [p EXCEPT !.aim = "hold", !.phase = "fly", !.flyStartTime = t + p.delay]
        ELSE [p EXCEPT !.aim = "hold"]
    ELSE IF p.phase = "fly" THEN
        LET elapsed == t - p.flyStartTime
        IN IF Progress(elapsed) >= duration \/ elapsed > hardTimeout
           THEN [p EXCEPT !.phase = "spawn"]
           ELSE [p EXCEPT !.aim = "bezier"]
    ELSE [p EXCEPT !.aim = DockAim(hand), !.lerp = DockLerp(hand)]

\* mutant of StepGlyph: the flight is scheduled without the stagger delay
StepGlyphNoDelay(p, t, hand) ==
    IF p.phase = "spawn" THEN
        IF t >= p.morphTime
        THEN [p EXCEPT !.aim = "hold", !.phase = "fly", !.flyStartTime = t]
        ELSE [p EXCEPT !.aim = "hold"]
    ELSE IF p.phase = "fly" THEN
        LET elapsed == t - p.flyStartTime
        IN IF Progress(elapsed) >= duration \/ elapsed > hardTimeout
           THEN [p EXCEPT !.phase = "dock"]
           ELSE [p EXCEPT !.aim = "bezier"]
    ELSE [p EXCEPT !.aim = DockAim(hand), !.lerp = DockLerp(hand)]

\* mutant of StepGlyph: the flight ends by the hard timeout only
StepGlyphTimeoutOnly(p, t, hand) ==
    IF p.phase = "spawn" THEN
        IF t >= p.morphTime
        THEN [p EXCEPT !.aim = "hold", !.phase = "fly", !.flyStartTime = t + p.delay]
        ELSE [p EXCEPT !.aim = "hold"]
    ELSE IF p.phase = "fly" THEN
        LET elapsed == t - p.flyStartTime
        IN IF elapsed > hardTimeout
           THEN [p EXCEPT !.phase = "dock"]
           ELSE [p EXCEPT !.aim = "bezier"]
    ELSE [p EXCEPT !.aim = DockAim(hand), !.lerp = DockLerp(hand)]

StepGlyph(p, t, hand) ==
    IF p.phase = "spawn" THEN
        IF t >= p.morphTime
        THEN [p EXCEPT !.aim = "hold", !.phase = "fly", !.flyStartTime = t + p.delay]
        ELSE [p EXCEPT !.aim = "hold"]
    ELSE IF p.phase = "fly" THEN
        LET elapsed == t - p.flyStartTime
        IN IF Progress(elapsed) >= duration \/ elapsed > hardTimeout
           THEN [p EXCEPT !.phase = "dock"]
           ELSE [p EXCEPT !.aim = "bezier"]
    ELSE [p EXCEPT !.aim = DockAim(hand), !.lerp = DockLerp(hand)]

\* mutant of Frame: the physics loop does not look at reading mode
FrameWhileReading(st, t, hand, reading) ==
    [ st EXCEPT !.glyphs =
        [id \in DOMAIN st.glyphs |->
            IF id \in st.physicsState /\ id \in st.textRefs
            THEN StepGlyph(st.glyphs[id], t, hand)
            ELSE st.glyphs[id]] ]

\* useFrame of TextParticleSystem
Frame(st, t, hand, reading) ==
    IF reading THEN st
    ELSE [ st EXCEPT !.glyphs =
             [id \in DOMAIN st.glyphs |->
                 IF id \in st.physicsState /\ id \in st.textRefs
                 THEN StepGlyph(st.glyphs[id], t, hand)
                 ELSE st.glyphs[id]] ]

----------------------------------------------------------------------------
(* App: processedMemories, the voice search of the palace.  A character of  *)
(* the CJK range is written by its code point, as in "U+6D77".              *)

UpperCase ==
    << "A", "B", "C", "D", "E", "F", "G", "H", "I", "J", "K", "L", "M",
       "N", "O", "P", "Q", "R", "S", "T", "U", "V", "W", "X", "Y", "Z" >>

LowerCase ==
    << "a", "b", "c", "d", "e", "f", "g", "h", "i", "j", "k", "l", "m",
       "n", "o", "p", "q", "r", "s", "t", "u", "v", "w", "x", "y", "z" >>

\* the lower-case letter of every upper-case one
LowerOf == [c \in Range(UpperCase) |-> LowerCase[CHOOSE i \in 1..26 : UpperCase[i] = c]]

ToLowerChar(c) == IF c \in DOMAIN LowerOf THEN LowerOf[c] ELSE c

\* String.prototype.toLowerCase
ToLower(s) == [i \in 1..Len(s) |-> ToLowerChar(s[i])]

\* the characters removed by the replace of normalizedQuery; the grave
\* accent is written by its code point
Punctuation ==
    { ".", ",", "/", "#", "!", "$", "%", "^", "&", "*", ";", ":", "{", "}",
      "=", "-", "_", "U+0060", "~", "(", ")" }

StripPunctuation(s) == SelectSeq(s, LAMBDA c : c \notin Punctuation)

Whitespace == {" "}

\* the characters of the range U+4E00..U+9FA5 that occur in the stop words and the inputs
Han ==
    { "U+7684", "U+4E86", "U+548C", "U+662F", "U+5C31", "U+90FD", "U+800C",
      "U+53CA", "U+4E0E", "U+7740", "U+6216", "U+5728", "U+4E00", "U+4E2A",
      "U+6CA1", "U+6709", "U+6211", "U+4EEC", "U+4F60", "U+4ED6", "U+8FD9",
      "U+90A3", "U+6D77", "U+5C71" }

STOP_WORDS ==
    { <<"t", "h", "e">>, <<"i", "s">>, <<"a", "t">>, <<"w", "h", "i", "c", "h">>,
      <<"o", "n">>, <<"a">>, <<"a", "n">>, <<"a", "n", "d">>, <<"o", "r">>,
      <<"b", "u", "t">>, <<"i", "f">>, <<"t", "h", "e", "n">>, <<"e", "l", "s", "e">>,
      <<"w", "h", "e", "n">>, <<"i", "n">>, <<"t", "o">>, <<"f", "o", "r">>, <<"o", "f">>,
      <<"U+7684">>, <<"U+4E86">>, <<"U+548C">>, <<"U+662F">>, <<"U+5C31">>, <<"U+90FD">>,
      <<"U+800C">>, <<"U+53CA">>, <<"U+4E0E">>, <<"U+7740">>, <<"U+6216">>,
      <<"U+4E00", "U+4E2A">>, <<"U+6CA1", "U+6709">>, <<"U+6211", "U+4EEC">>,
      <<"U+4F60", "U+4EEC">>, <<"U+4ED6", "U+4EEC">>, <<"U+8FD9", "U+4E2A">>,
      <<"U+90A3", "U+4E2A">>, <<"U+5728">> }

\* split(/\s+/).filter(w => w.length > 0): the maximal runs without whitespace
RECURSIVE Words(_)
Words(s) ==
    IF s = << >> THEN << >>
    ELSE IF Head(s) \in Whitespace THEN Words(Tail(s))
    ELSE LET n == CHOOSE k \in 1..Len(s) :
                    /\ \A i \in 1..k : s[i] \notin Whitespace
                    /\ k = Len(s) \/ s[k + 1] \in Whitespace
         IN << SubSeq(s, 1, n) >> \o Words(SubSeq(s, n + 1, Len(s)))

\* mutant of Keywords: the Chinese branch without its bigrams
KeywordsWithoutBigrams(searchQuery) ==
    LET normalizedQuery == StripPunctuation(ToLower(searchQuery))
        hasChinese == \E i \in 1..Len(normalizedQuery) : normalizedQuery[i] \in Han
        chars == { << normalizedQuery[i] >> : i \in 1..Len(normalizedQuery) }
        singles == { w \in chars : w[1] \notin Whitespace /\ w \notin STOP_WORDS }
        splitParts == Range(Words(normalizedQuery)) \ STOP_WORDS
    IN IF hasChinese THEN singles \cup splitParts ELSE splitParts

\* keywords, after [...new Set(keywords)]
Keywords(searchQuery) ==
    LET normalizedQuery == StripPunctuation(ToLower(searchQuery))
        hasChinese == \E i \in 1..Len(normalizedQuery) : normalizedQuery[i] \in Han
        chars == { << normalizedQuery[i] >> : i \in 1..Len(normalizedQuery) }
        singles == { w \in chars : w[1] \notin Whitespace /\ w \notin STOP_WORDS }
        bigrams == { SubSeq(normalizedQuery, i, i + 1) : i \in 1..(Len(normalizedQuery) - 1) }
                       \ STOP_WORDS
        splitParts == Range(Words(normalizedQuery)) \ STOP_WORDS
    IN IF hasChinese THEN singles \cup bigrams \cup splitParts ELSE splitParts

\* String.prototype.includes
Includes(content, word) ==
    \E i \in 0..(Len(content) - Len(word)) : SubSeq(content, i + 1, i + Len(word)) = word

\* the values of the enum Sentiment
SentimentLabel(heard) ==
    CASE heard = "positive" -> <<"p", "o", "s", "i", "t", "i", "v", "e">>
      [] heard = "negative" -> <<"n", "e", "g", "a", "t", "i", "v", "e">>
      [] heard = "neutral"  -> <<"n", "e", "u", "t", "r", "a", "l">>

Content(memory) ==
    ToLower(memory.transcriptSnapshot \o <<" ">> \o SentimentLabel(memory.sentiment))

Hits(memory, keywords) ==
    LET content == Content(memory)
    IN Cardinality({ word \in keywords : Includes(content, word) })

\* a score is kept as a fraction
ZeroScore == [num |-> 0, den |-> 1]

\* mutant of MatchScore: the score is not clamped to 1
MatchScoreUnclamped(hits, count) ==
    IF hits > 0 THEN [num |-> 2 * hits, den |-> Max(2, count)] ELSE ZeroScore

\* hits / Math.max(1, keywords.length * 0.5), then Math.min(score, 1.0)
MatchScore(hits, count) ==
    IF hits > 0
    THEN [num |-> Min(2 * hits, Max(2, count)), den |-> Max(2, count)]
    ELSE ZeroScore

\* the sign of x - y
ScoreDiff(x, y) == x.num * y.den - y.num * x.den

\* mutant of ByRecency: the oldest memory first
ByOldestFirst(a, b) == a.timestamp - b.timestamp

\* the comparator of the unscored list
ByRecency(a, b) == b.timestamp - a.timestamp

\* mutant of ByScore: ascending scores
ByScoreAscending(a, b) ==
    IF b.matchScore.num > 0 \/ a.matchScore.num > 0
    THEN ScoreDiff(a.matchScore, b.matchScore)
    ELSE b.timestamp - a.timestamp

\* the comparator of the scored list
ByScore(a, b) ==
    IF b.matchScore.num > 0 \/ a.matchScore.num > 0
    THEN ScoreDiff(b.matchScore, a.matchScore)
    ELSE b.timestamp - a.timestamp

\* the comparator handed to sort: of the scored list, or of the unscored one
Compare(a, b, scored) == IF scored THEN ByScore(a, b) ELSE ByRecency(a, b)

\* Array.prototype.sort, which is stable: x goes before the first element
\* that the comparator puts after it
Insert(x, sorted, scored) ==
    LET later == { i \in 1..Len(sorted) : Compare(sorted[i], x, scored) > 0 }
        at == IF later = {} THEN Len(sorted) + 1
              ELSE CHOOSE i \in later : \A j \in later : i <= j
    IN SubSeq(sorted, 1, at - 1) \o << x >> \o SubSeq(sorted, at, Len(sorted))

RECURSIVE SortBy(_, _)
SortBy(s, scored) ==
    IF s = << >> THEN << >>
    ELSE Insert(s[Len(s)], SortBy(SubSeq(s, 1, Len(s) - 1), scored), scored)

\* the useMemo of processedMemories
ProcessedMemories(memories, searchQuery, mode) ==
    LET unscored == [k \in 1..Len(memories) |-> [memories[k] EXCEPT !.matchScore = ZeroScore]]
        keywords == Keywords(searchQuery)
        scoredMemories ==
            [k \in 1..Len(memories) |->
                [memories[k] EXCEPT !.matchScore =
                    MatchScore(Hits(memories[k], keywords), Cardinality(keywords))]]
    IN IF mode = "LIVE" \/ searchQuery = << >>
       THEN SortBy(unscored, FALSE)
       ELSE IF keywords = {}
            THEN SortBy(unscored, FALSE)
            ELSE SortBy(scoredMemories, TRUE)

\* transcript || finalizedTranscript
QueryOf(interim, finalized) == IF interim # << >> THEN interim ELSE finalized

SearchQuery == QueryOf(interimTranscript, finalizedTranscript)

processedMemories == ProcessedMemories(savedMemories, SearchQuery, viewMode)

----------------------------------------------------------------------------
(* MemoryPalace: targetPositions.  Lengths are in thousandths of a scene    *)
(* unit and a Math.random() draw is in thousandths, 0..999.  A position     *)
(* computed with cos or sin is kept in polar form: a background position    *)
(* has x = cos(angle) * radius with the angle in thousandths of a degree, a *)
(* spiral position has x = cos(angle) * radius, z = sin(angle) * radius and *)
(* y = 2 * sin(wave), with angle and wave in thousandths of a radian.       *)

spread == 7000

\* mutant of OffsetUnit: every slot on the right-hand side
OffsetUnitRightOnly(i) == IF i > 0 THEN (i + 1) \div 2 ELSE 0

\* Math.ceil(i / 2) * (i % 2 === 1 ? 1 : -1), and 0 for the best match
OffsetUnit(i) ==
    IF i > 0 THEN ((i + 1) \div 2) * (IF i % 2 = 1 THEN 1 ELSE -1) ELSE 0

FocusPosition(i) ==
    LET offsetUnit == OffsetUnit(i)
    IN [ kind |-> "focus",
         x |-> offsetUnit * spread,
         y |-> -(Abs(offsetUnit) * 500),
         z |-> 6000 - Abs(offsetUnit) * 1500 ]

\* the Math.random() draws of one layout, in thousandths: every background
\* memory gets the same three draws, the least or the greatest
DrawStreams ==
    { [radius |-> 0, y |-> 0, z |-> 0],
      [radius |-> 999, y |-> 999, z |-> 999] }

\* mutant of BackgroundPosition: the depth band starts at the front row
BackgroundPositionShallow(i, draw) ==
    [ kind |-> "background",
      angle |-> i * 137500,
      radius |-> 20000 + draw.radius * 10,
      y |-> draw.y * 15 - 7500,
      z |-> 6000 - draw.z * 10 ]

BackgroundPosition(i, draw) ==
    [ kind |-> "background",
      angle |-> i * 137500,
      radius |-> 20000 + draw.radius * 10,
      y |-> draw.y * 15 - 7500,
      z |-> -15000 - draw.z * 10 ]

\* the period of Math.cos and Math.sin in microradians, between two bounds
TwoPi == [low |-> 6283185, high |-> 6283186]

\* mutant of SpiralPosition: a ring instead of a spiral
SpiralPositionRing(i) ==
    [ kind |-> "spiral", angle |-> i * 1500, radius |-> 5000, wave |-> i * 500 ]

SpiralPosition(i) ==
    [ kind |-> "spiral", angle |-> i * 1500, radius |-> 5000 + i * 4000, wave |-> i * 500 ]

\* memories.some(m => (m.matchScore || 0) > 0)
HasActiveSearch(memories) == \E k \in 1..Len(memories) : memories[k].matchScore.num > 0

Matches(memories) == SelectSeq(memories, LAMBDA m : m.matchScore.num > 0)

NonMatches(memories) == SelectSeq(memories, LAMBDA m : m.matchScore.num <= 0)

\* the Map after posMap.set(id, pos) for every entry in turn
PosMap(entries) ==
    [ id \in { entries[k].id : k \in 1..Len(entries) } |->
        entries[CHOOSE k \in 1..Len(entries) :
                   /\ entries[k].id = id
                   /\ \A j \in (k + 1)..Len(entries) : entries[j].id # id].pos ]

\* the useMemo of targetPositions
TargetPositions(memories, draw) ==
    LET matches == Matches(memories)
        nonMatches == NonMatches(memories)
        focus == [k \in 1..Len(matches) |->
                     [id |-> matches[k].id, pos |-> FocusPosition(k - 1)]]
        background == [k \in 1..Len(nonMatches) |->
                          [id |-> nonMatches[k].id, pos |-> BackgroundPosition(k - 1, draw)]]
        spiral == [k \in 1..Len(memories) |->
                      [id |-> memories[k].id, pos |-> SpiralPosition(k - 1)]]
    IN IF HasActiveSearch(memories) /\ Len(matches) > 0
       THEN CHOOSE posMap \in { PosMap(entries) : entries \in { focus \o background } } : TRUE
       ELSE CHOOSE posMap \in { PosMap(entries) : entries \in { spiral } } : TRUE

\* Math.random() is called for the background memories only
Draws(memories) ==
    IF HasActiveSearch(memories) /\ Len(NonMatches(memories)) > 0
    THEN DrawStreams
    ELSE { [radius |-> 0, y |-> 0, z |-> 0] }

\* the re-render of the palace after a state change of App: MemoryPalace is
\* rendered in the PALACE view only, and its layout is computed again when
\* processedMemories was (one of its dependencies changed)
Relayout ==
    IF viewMode' # "PALACE" THEN targetPositions' = Null
    ELSE IF /\ viewMode = "PALACE"
            /\ savedMemories' = savedMemories
            /\ interimTranscript' = interimTranscript
            /\ finalizedTranscript' = finalizedTranscript
         THEN targetPositions' = targetPositions
         ELSE \E saved \in { savedMemories' } :
              \E searchQuery \in { QueryOf(interimTranscript', finalizedTranscript') } :
              \E memories \in { ProcessedMemories(saved, searchQuery, "PALACE") } :
              \E draw \in Draws(memories) :
                 targetPositions' = TargetPositions(memories, draw)

----------------------------------------------------------------------------
(* App *)

Mounted == viewMode = "LIVE"

Hand(g, d) == [gesture |-> g, detected |-> d]

HandInputs == { Null, Hand("OPEN", TRUE), Hand("CLOSED", TRUE), Hand("IDLE", FALSE) }

\* no call of processImageToParticles is being followed
NoSampling ==
    [ status |-> "idle", targetCount |-> 0, image |-> Null, attempts |-> 0,
      particles |-> << >> ]

NoPoll ==
    [ kind |-> "init", ran |-> "init", prevRan |-> "init", frame |-> Null,
      velocity |-> [d2 |-> 0, dt |-> 1], moved |-> FALSE,
      outcome |-> "init", scheduled |-> TRUE ]

----------------------------------------------------------------------------
(* ParticleScene: the blended uniforms.  A uniform is kept in millionths,   *)
(* rounded down at every blend; a blend rate is in hundredths.  The clock   *)
(* uniform and the transforms of the mesh, which follow the position of    *)
(* the hand, are left out.                                                  *)

MaxFrames == 4          \* frames of ParticleScene in one behaviour

\* uniforms.current after the mount, with the rates of the latest frame that
\* raised the value (engage) and of the latest that lowered it (relax)
FreshUniforms ==
    [ uDisruption |-> 0, uSwipeActive |-> 0, uReadingMode |-> 0,
      frames |-> 0, disruptionTarget |-> 0, engageSpeed |-> 0, relaxSpeed |-> 0 ]

\* disruptionTarget of one frame: the sentiment override comes first, then
\* both branches of the hand test assign the target again
DisruptionTarget(heard, hand, reading) ==
    LET override == IF heard = "negative" THEN 1500000 ELSE 0
    IN IF hand # Null /\ hand.detected /\ ~reading
       THEN IF hand.gesture = "OPEN" THEN 2500000
            ELSE IF hand.gesture = "CLOSED" THEN 0
            ELSE IF hand.gesture = "SWIPE" THEN 0
            ELSE 200000
       ELSE 0

\* swipeActive of one frame
SwipeActive(hand, reading) ==
    IF hand # Null /\ hand.detected /\ ~reading /\ hand.gesture = "SWIPE" THEN 1000000 ELSE 0

\* lerpSpeed
LerpSpeed(target, current) == IF target > current THEN 3 ELSE 15

\* THREE.MathUtils.lerp(x, y, t) with t in hundredths
Lerp(x, y, t) == x + ((y - x) * t) \div 100

\* useFrame of ParticleScene; without a point cloud there is no mesh and the
\* frame returns at once
SceneFrame ==
    /\ Mounted
    /\ uniforms.frames < MaxFrames
    /\ IF particles = NoCloud
       THEN uniforms' = [uniforms EXCEPT !.frames = @ + 1]
       ELSE LET target == DisruptionTarget(sentiment, handData, readingMode)
                current == uniforms.uDisruption
                speed == LerpSpeed(target, current)
            IN uniforms' =
                  [ uDisruption |-> Lerp(current, target, speed),
                    uSwipeActive |->
                       Lerp(uniforms.uSwipeActive, SwipeActive(handData, readingMode), 10),
                    uReadingMode |->
                       Lerp(uniforms.uReadingMode, IF readingMode THEN 1000000 ELSE 0, 5),
                    frames |-> uniforms.frames + 1,
                    disruptionTarget |-> target,
                    engageSpeed |-> IF target > current THEN speed ELSE uniforms.engageSpeed,
                    relaxSpeed |-> IF target < current THEN speed ELSE uniforms.relaxSpeed ]
    /\ last' = [op |-> "SceneFrame", run |-> NoRun]
    /\ UNCHANGED << now, viewMode, readingMode, finalizedTranscript, voiceMemories,
                    savedMemories, sceneVersion, particles, pending, requests,
                    handData, tps, nextId, gestureVars, recVars >>
    /\ UNCHANGED << interimTranscript, sampler, shownAtUpload, sentiment, targetPositions,
                    streamer, gestureState >>

----------------------------------------------------------------------------
(* AudioStreamer.  A call of startRecording is numbered; the audio context, *)
(* the microphone stream and the processor node it creates carry its       *)
(* number.  0 stands for null.                                              *)

MaxCalls == 3           \* calls of startRecording in one behaviour

\* the object after its constructor: no socket, nothing opened
NewStreamer ==
    [ socket |-> "none", isConnected |-> FALSE,
      audioContext |-> 0, processor |-> 0, inputStream |-> 0,
      contexts |-> {}, streams |-> {}, processors |-> {},
      waiting |-> {}, asking |-> {}, calls |-> 0, lastCall |-> "none" ]

\* connect()
Connect(s) == IF s.socket # "none" THEN s ELSE [s EXCEPT !.socket = "connecting"]

\* startRecording from the try block up to the await of getUserMedia
OpenContext(s, n) ==
    [s EXCEPT !.audioContext = n, !.contexts = @ \cup {n}, !.asking = @ \cup {n},
              !.waiting = @ \ {n}]

\* startRecording(), up to its first await
StartRecording ==
    /\ streamer.calls < MaxCalls
    /\ LET n == streamer.calls + 1
           s == [streamer EXCEPT !.calls = n, !.lastCall = "start"]
       IN streamer' = IF ~s.isConnected \/ s.socket = "none"
                      THEN [Connect(s) EXCEPT !.waiting = @ \cup {n}]
                      ELSE OpenContext(s, n)
    /\ last' = [op |-> "StartRecording", run |-> NoRun]
    /\ UNCHANGED << now, viewMode, readingMode, finalizedTranscript, voiceMemories,
                    savedMemories, sceneVersion, particles, pending, requests,
                    handData, tps, nextId, gestureVars, recVars >>
    /\ UNCHANGED << interimTranscript, sampler, shownAtUpload, sentiment, targetPositions,
                    uniforms, gestureState >>

\* the timeout of 500 ms of call n elapses
ConnectWaitOver(n) ==
    /\ n \in streamer.waiting
    /\ streamer' = OpenContext(streamer, n)
    /\ last' = [op |-> "ConnectWaitOver", run |-> NoRun]
    /\ UNCHANGED << now, viewMode, readingMode, finalizedTranscript, voiceMemories,
                    savedMemories, sceneVersion, particles, pending, requests,
                    handData, tps, nextId, gestureVars, recVars >>
    /\ UNCHANGED << interimTranscript, sampler, shownAtUpload, sentiment, targetPositions,
                    uniforms, gestureState >>

\* getUserMedia of call n resolves with a live stream.  With audioContext
\* null, createMediaStreamSource throws a TypeError, which the catch logs
MicGranted(n) ==
    /\ n \in streamer.asking
    /\ LET s == [streamer EXCEPT !.asking = @ \ {n}, !.inputStream = n,
                                 !.streams = @ \cup {n}]
       IN streamer' = IF s.audioContext = 0
                      THEN s
                      ELSE [s EXCEPT !.processor = n, !.processors = @ \cup {n}]
    /\ last' = [op |-> "MicGranted", run |-> NoRun]
    /\ UNCHANGED << now, viewMode, readingMode, finalizedTranscript, voiceMemories,
                    savedMemories, sceneVersion, particles, pending, requests,
                    handData, tps, nextId, gestureVars, recVars >>
    /\ UNCHANGED << interimTranscript, sampler, shownAtUpload, sentiment, targetPositions,
                    uniforms, gestureState >>

\* getUserMedia of call n rejects; the catch logs the error
MicDenied(n) ==
    /\ n \in streamer.asking
    /\ streamer' = [streamer EXCEPT !.asking = @ \ {n}]
    /\ last' = [op |-> "MicDenied", run |-> NoRun]
    /\ UNCHANGED << now, viewMode, readingMode, finalizedTranscript, voiceMemories,
                    savedMemories, sceneVersion, particles, pending, requests,
                    handData, tps, nextId, gestureVars, recVars >>
    /\ UNCHANGED << interimTranscript, sampler, shownAtUpload, sentiment, targetPositions,
                    uniforms, gestureState >>

\* socket.onopen
SocketOpen ==
    /\ streamer.socket = "connecting"
    /\ streamer' = [streamer EXCEPT !.socket = "open", !.isConnected = TRUE]
    /\ last' = [op |-> "SocketOpen", run |-> NoRun]
    /\ UNCHANGED << now, viewMode, readingMode, finalizedTranscript, voiceMemories,
                    savedMemories, sceneVersion, particles, pending, requests,
                    handData, tps, nextId, gestureVars, recVars >>
    /\ UNCHANGED << interimTranscript, sampler, shownAtUpload, sentiment, targetPositions,
                    uniforms, gestureState >>

\* socket.onclose
SocketClose ==
    /\ streamer.socket # "none"
    /\ streamer' = [streamer EXCEPT !.socket = "none", !.isConnected = FALSE]
    /\ last' = [op |-> "SocketClose", run |-> NoRun]
    /\ UNCHANGED << now, viewMode, readingMode, finalizedTranscript, voiceMemories,
                    savedMemories, sceneVersion, particles, pending, requests,
                    handData, tps, nextId, gestureVars, recVars >>
    /\ UNCHANGED << interimTranscript, sampler, shownAtUpload, sentiment, targetPositions,
                    uniforms, gestureState >>

\* stopRecording()
StopRecording ==
    /\ streamer' =
          [streamer EXCEPT !.streams = @ \ {streamer.inputStream}, !.inputStream = 0,
                           !.processors = @ \ {streamer.processor}, !.processor = 0,
                           !.contexts = @ \ {streamer.audioContext}, !.audioContext = 0,
                           !.lastCall = "stop"]
    /\ last' = [op |-> "StopRecording", run |-> NoRun]
    /\ UNCHANGED << now, viewMode, readingMode, finalizedTranscript, voiceMemories,
                    savedMemories, sceneVersion, particles, pending, requests,
                    handData, tps, nextId, gestureVars, recVars >>
    /\ UNCHANGED << interimTranscript, sampler, shownAtUpload, sentiment, targetPositions,
                    uniforms, gestureState >>

----------------------------------------------------------------------------
(* MemoryPalace: the gesture control of useFrame.  A pinch distance and a   *)
(* palm coordinate are in thousandths, targetScale and the scale of the     *)
(* group in thousandths, an angle in 1/2000 (half a thousandth of palm      *)
(* travel); a quotient is rounded down.                                     *)

MaxPalaceFrames == 4    \* frames of MemoryPalace in one behaviour

\* gestureState.current and the transform of the group after the mount, with
\* the number of frames so far, what the latest frame with a hand saw of it
\* and whether the latest frame saw another gesture than the one before
FreshGestureState ==
    [ prevPinch |-> 0, prevPalm |-> [x |-> 0, y |-> 0], targetRot |-> [x |-> 0, y |-> 0],
      targetScale |-> 1000, isPinching |-> FALSE, isPanning |-> FALSE,
      rotation |-> [x |-> 0, y |-> 0], scale |-> 1000,
      frames |-> 0, saw |-> "none", first |-> FALSE ]

PalaceHand(d, pinch, x, y) ==
    [detected |-> d, pinchDistance |-> pinch, palmCenter |-> [x |-> x, y |-> y]]

PalaceHands ==
    { Null, PalaceHand(FALSE, 1000, 500, 500),
      PalaceHand(TRUE, 10, 500, 500), PalaceHand(TRUE, 140, 500, 500),
      PalaceHand(TRUE, 0, 500, 500),
      PalaceHand(TRUE, 400, 500, 500), PalaceHand(TRUE, 400, 600, 450) }

\* handData.pinchDistance || 1.0
PinchDist(hand) == IF hand.pinchDistance = 0 THEN 1000 ELSE hand.pinchDistance

\* isPinchingNow
IsPinchingNow(hand) == PinchDist(hand) < 150

\* what a frame sees of the hand
Seen(hand) ==
    IF hand = Null THEN "none"
    ELSE IF ~hand.detected THEN "none"
    ELSE IF IsPinchingNow(hand) THEN "pinch" ELSE "pan"

Clamp(x, lo, hi) == IF x < lo THEN lo ELSE IF x > hi THEN hi ELSE x

\* mutant of ScaleControl: the first frame of a pinch scales as well
ScaleControlEager(state, hand) ==
    LET pinchDist == PinchDist(hand)
    IN IF IsPinchingNow(hand)
       THEN LET safePrev == IF state.prevPinch = 0 THEN 1 ELSE state.prevPinch
                scaleDelta == ((pinchDist - safePrev) * 1500) \div safePrev
                newScale == Clamp(state.targetScale + scaleDelta, 300, 3000)
            IN [state EXCEPT !.isPinching = TRUE, !.targetScale = newScale,
                             !.prevPinch = pinchDist]
       ELSE [state EXCEPT !.isPinching = FALSE]

\* the scale control of one frame with a detected hand
ScaleControl(state, hand) ==
    LET pinchDist == PinchDist(hand)
    IN IF IsPinchingNow(hand)
       THEN IF ~state.isPinching
            THEN [state EXCEPT !.isPinching = TRUE, !.prevPinch = pinchDist]
            ELSE LET safePrev == IF state.prevPinch = 0 THEN 1 ELSE state.prevPinch
                     scaleDelta == ((pinchDist - safePrev) * 1500) \div safePrev
                     newScale == Clamp(state.targetScale + scaleDelta, 300, 3000)
                 IN [state EXCEPT !.targetScale = newScale, !.prevPinch = pinchDist]
       ELSE [state EXCEPT !.isPinching = FALSE]

\* the rotation control of one frame with a detected hand
RotationControl(state, hand) ==
    IF ~IsPinchingNow(hand)
    THEN IF ~state.isPanning
         THEN [state EXCEPT !.isPanning = TRUE, !.prevPalm = hand.palmCenter]
         ELSE LET dx == hand.palmCenter.x - state.prevPalm.x
                  dy == hand.palmCenter.y - state.prevPalm.y
              IN [state EXCEPT !.targetRot = [x |-> @.x + dy, y |-> @.y + dx],
                               !.prevPalm = hand.palmCenter]
    ELSE [state EXCEPT !.isPanning = FALSE]

\* the gesture control of one frame
GestureControl(state, hand) ==
    IF hand # Null /\ hand.detected
    THEN RotationControl(ScaleControl(state, hand), hand)
    ELSE state

\* useFrame of MemoryPalace
PalaceFrame ==
    /\ viewMode = "PALACE"
    /\ gestureState.frames < MaxPalaceFrames
    /\ LET state == GestureControl(gestureState, handData)
       IN gestureState' =
             [state EXCEPT !.rotation = [x |-> Lerp(@.x, state.targetRot.x, 10),
                                         y |-> Lerp(@.y, state.targetRot.y, 10)],
                           !.scale = Lerp(@, state.targetScale, 10),
                           !.frames = @ + 1,
                           !.saw = IF Seen(handData) = "none" THEN @ ELSE Seen(handData),
                           !.first = Seen(handData) \notin {"none", gestureState.saw}]
    /\ last' = [op |-> "PalaceFrame", run |-> NoRun]
    /\ UNCHANGED << now, viewMode, readingMode, finalizedTranscript, voiceMemories,
                    savedMemories, sceneVersion, particles, pending, requests,
                    handData, tps, nextId, gestureVars, recVars >>
    /\ UNCHANGED << interimTranscript, sampler, shownAtUpload, sentiment, targetPositions,
                    uniforms, streamer >>

----------------------------------------------------------------------------
\* the state after App has mounted, but for the clock and the palace
InitRest ==
    /\ viewMode = "LIVE"
    /\ readingMode = FALSE
    /\ finalizedTranscript = << >>
    /\ voiceMemories = << >>
    /\ sceneVersion = 0
    /\ particles = NoCloud
    /\ pending = {Request(1, "mount")}   \* the mount effect of App samples the default image
    /\ requests = 1
    /\ handData = Null
    /\ tps = FreshTps(0)
    /\ nextId = 0
    /\ last = [op |-> "Init", run |-> NoRun]
    /\ lastPointerRef = Null
    /\ lastTimeRef = 0
    /\ poll = NoPoll
    /\ isRecording = FALSE
    /\ isRecordingRef = FALSE
    /\ recognition = "idle"
    /\ acquiring = 0
    /\ micStreams = {}
    /\ recorders = << >>
    /\ mediaRecorderRef = 0
    /\ timers = << >>
    /\ sentimentIntervalRef = 0
    /\ recLast = "Init"
    /\ interimTranscript = << >>
    /\ sampler = NoSampling
    /\ shownAtUpload = NoCloud
    /\ sentiment = "neutral"
    /\ targetPositions = Null
    /\ uniforms = FreshUniforms
    /\ streamer = NewStreamer
    /\ gestureState = FreshGestureState
    /\ analysing = 0

Init ==
    /\ now = 1
    /\ savedMemories = << >>
    /\ InitRest

\* the re-render after a state change: the spawn effect runs when the component
\* is mounted and one of its dependencies changed
RerenderUpTo(op, transcript, sv, cap) ==
    IF Mounted /\ (transcript # finalizedTranscript \/ sv # sceneVersion)
    THEN LET r == SpawnEffect(tps, transcript, sv, now, nextId)
         IN /\ nextId + Len(r.log.created) <= cap
            /\ tps' = r.st
            /\ nextId' = nextId + Len(r.log.created)
            /\ last' = [op |-> op, run |-> r.log]
    ELSE /\ tps' = tps
         /\ nextId' = nextId
         /\ last' = [op |-> op, run |-> NoRun]

Rerender(op, transcript, sv) == RerenderUpTo(op, transcript, sv, MaxGlyphs)

\* the component mounts: fresh state, then the effect runs
Mount(op, transcript, sv) ==
    LET r == SpawnEffect(FreshTps(sv), transcript, sv, now, nextId)
    IN /\ nextId + Len(r.log.created) <= MaxGlyphs
       /\ tps' = r.st
       /\ nextId' = nextId + Len(r.log.created)
       /\ last' = [op |-> op, run |-> r.log]

\* mutant of VoiceMemory: the record does not take the current sentiment
VoiceMemoryNeutral(text, heard, t) ==
    [ id |-> t, transcript |-> text, sentiment |-> "neutral", timestamp |-> t ]

\* the VoiceMemory of recognition.onresult
VoiceMemory(text, heard, t) ==
    [ id |-> t, transcript |-> text, sentiment |-> heard, timestamp |-> t ]

\* recognition.onresult with one final result
SpeechFinal(text) ==
    /\ Len(voiceMemories) < MaxVoice
    /\ finalizedTranscript' = text
    /\ voiceMemories' = Append(voiceMemories, VoiceMemory(text, sentiment, now))
    /\ interimTranscript' = << >>
    /\ Rerender("SpeechFinal", text, sceneVersion)
    /\ UNCHANGED << now, viewMode, readingMode, savedMemories, sceneVersion,
                    particles, pending, requests, handData >>
    /\ UNCHANGED << gestureVars, recVars, sampler, shownAtUpload, widgetVars, sentiment >>
    /\ Relayout

\* handleUpload
Upload ==
    /\ requests < MaxRequests
    /\ particles' = NoCloud
    /\ finalizedTranscript' = << >>
    /\ voiceMemories' = << >>
    /\ requests' = requests + 1
    /\ pending' = pending \cup {Request(requests + 1, "upload")}
    /\ interimTranscript' = << >>
    /\ shownAtUpload' = particles
    /\ Rerender("Upload", << >>, sceneVersion)
    /\ UNCHANGED << now, viewMode, readingMode, savedMemories, sceneVersion, handData >>
    /\ UNCHANGED << gestureVars, recVars, sampler, sentiment, widgetVars >>
    /\ Relayout

\* the setDensity handler of Controls
SetDensity ==
    /\ requests < MaxRequests
    /\ requests' = requests + 1
    /\ pending' = pending \cup {Request(requests + 1, "density")}
    /\ last' = [op |-> "SetDensity", run |-> NoRun]
    /\ UNCHANGED << now, viewMode, readingMode, finalizedTranscript, voiceMemories,
                    savedMemories, sceneVersion, particles, handData, tps, nextId >>
    /\ UNCHANGED << gestureVars, recVars, otherVars >>

\* processImageToParticles(...).then: install the cloud, bump the scene version
Resolve(r) ==
    /\ r \in pending
    /\ pending' = pending \ {r}
    /\ particles' = r
    /\ sceneVersion' = now
    /\ Rerender("Resolve", finalizedTranscript, now)
    /\ UNCHANGED << now, viewMode, readingMode, finalizedTranscript, voiceMemories,
                    savedMemories, requests, handData >>
    /\ UNCHANGED << gestureVars, recVars, otherVars >>

\* processImageToParticles(...) rejects: the image failed to decode.  No
\* handler is attached to the rejection, except the console.error of the
\* mount effect
Reject(r) ==
    /\ r \in pending
    /\ pending' = pending \ {r}
    /\ last' = [op |-> "Reject", run |-> NoRun]
    /\ UNCHANGED << now, viewMode, readingMode, finalizedTranscript, voiceMemories,
                    savedMemories, sceneVersion, particles, requests, handData,
                    tps, nextId >>
    /\ UNCHANGED << gestureVars, recVars, otherVars >>

\* a colour of the palette, "#rrggbb", as its three bytes
Hex(r, g, b) == [r |-> r, g |-> g, b |-> b]

\* a point of the cloud: depth and colour, the colour in 1/255
Point(z, r, g, b) == [z |-> z, r |-> r, g |-> g, b |-> b]

\* point clouds of 0, 1, 2, 4 and 31 points
Clouds ==
    { << >>,
      << Point(10, 255, 128, 0) >>,
      << Point(-5, 10, 10, 10), Point(20, 200, 100, 50) >>,
      << Point(0, 0, 0, 255), Point(30, 255, 0, 0), Point(30, 0, 255, 0),
         Point(-30, 9, 9, 9) >>,
      [j \in 1..31 |-> Point(j % 7, (j * 8) % 256, 255 - j, j)] }

\* [...particles].sort((a, b) => b.z - a.z), a stable sort
RECURSIVE SortedByDepth(_)
SortedByDepth(points) ==
    IF points = << >> THEN << >>
    ELSE LET x == points[Len(points)]
             sorted == SortedByDepth(SubSeq(points, 1, Len(points) - 1))
             later == { i \in 1..Len(sorted) : x.z - sorted[i].z > 0 }
             at == IF later = {} THEN Len(sorted) + 1
                   ELSE CHOOSE i \in later : \A j \in later : i <= j
         IN SubSeq(sorted, 1, at - 1) \o << x >> \o SubSeq(sorted, at, Len(sorted))

\* Math.ceil(n / 3)
ChunkSize(n) == (n + 2) \div 3

RECURSIVE Sum(_, _)
Sum(f, S) ==
    IF S = {} THEN 0
    ELSE LET x == CHOOSE y \in S : TRUE IN f[x] + Sum(f, S \ {x})

\* mutant of ChunkColor: a chunk without a point contributes no colour
ChunkColorSkipping(sorted, i) ==
    LET chunkSize == ChunkSize(Len(sorted))
        picked == { j \in 0..(Len(sorted) - 1) :
                      /\ j >= i * chunkSize
                      /\ j < (i + 1) * chunkSize
                      /\ (j - i * chunkSize) % 10 = 0 }
        count == Cardinality(picked)
    IN IF count > 0
       THEN << Hex(Sum([j \in picked |-> sorted[j + 1].r], picked) \div count,
                   Sum([j \in picked |-> sorted[j + 1].g], picked) \div count,
                   Sum([j \in picked |-> sorted[j + 1].b], picked) \div count) >>
       ELSE << >>

\* the colours chunk i of the sorted points pushes to the palette: the mean of
\* every tenth point of the chunk, or white for a chunk without a point
ChunkColor(sorted, i) ==
    LET chunkSize == ChunkSize(Len(sorted))
        picked == { j \in 0..(Len(sorted) - 1) :
                      /\ j >= i * chunkSize
                      /\ j < (i + 1) * chunkSize
                      /\ (j - i * chunkSize) % 10 = 0 }
        count == Cardinality(picked)
    IN IF count > 0
       THEN << Hex(Sum([j \in picked |-> sorted[j + 1].r], picked) \div count,
                   Sum([j \in picked |-> sorted[j + 1].g], picked) \div count,
                   Sum([j \in picked |-> sorted[j + 1].b], picked) \div count) >>
       ELSE << Hex(255, 255, 255) >>

\* palette of handleSaveMemory
Palette(points) ==
    LET sortedParticles == SortedByDepth(points)
    IN IF Len(sortedParticles) > 0
       THEN ChunkColor(sortedParticles, 0) \o ChunkColor(sortedParticles, 1)
               \o ChunkColor(sortedParticles, 2)
       ELSE << Hex(255, 255, 255), Hex(204, 204, 204), Hex(153, 153, 153) >>

\* dominantColor and palette of the MemoryPackage
Colors(points) ==
    LET palette == Palette(points)
    IN [dominantColor |-> palette[1], palette |-> palette]

\* the MemoryPackage of handleSaveMemory but for its colours
MemoryPackage(voice, finalized, heard, t) ==
    LET fullTranscript == Join([k \in 1..Len(voice) |-> voice[k].transcript])
        finalSnapshot == IF fullTranscript # << >> THEN fullTranscript
                         ELSE IF finalized # << >> THEN finalized
                         ELSE SilentMemory
    IN [ id |-> t,
         timestamp |-> t,
         sentiment |-> heard,
         transcriptSnapshot |-> finalSnapshot,
         voiceMemories |-> voice,
         matchScore |-> [num |-> 0, den |-> 1] ]

\* mutant of Saved: the memory that matched last is stored with its score
SavedRescored(prev, pkg) ==
    <<pkg>> \o [k \in 1..Len(prev) |-> [prev[k] EXCEPT !.matchScore = [num |-> 1, den |-> 1]]]

\* setSavedMemories(prev => [pkg, ...prev])
Saved(prev, pkg) == <<pkg>> \o prev

\* handleSaveMemory storing the package pkg, with at most cap memories; two
\* saves are at least 1 ms apart
SaveAs(pkg, cap) ==
    /\ Len(savedMemories) < cap
    /\ \A k \in 1..Len(savedMemories) : savedMemories[k].timestamp < now
    /\ savedMemories' = Saved(savedMemories, pkg)
    /\ last' = [op |-> "SaveMemory", run |-> NoRun]
    /\ UNCHANGED << now, viewMode, readingMode, finalizedTranscript, voiceMemories,
                    sceneVersion, particles, pending, requests, handData, tps, nextId >>
    /\ UNCHANGED << gestureVars, recVars >>
    /\ UNCHANGED << interimTranscript, sampler, shownAtUpload, widgetVars, sentiment >>
    /\ Relayout

\* handleSaveMemory; the points of the cloud are not followed, and the package
\* is stored without its colours
SaveMemoryUpTo(cap) ==
    SaveAs(MemoryPackage(voiceMemories, finalizedTranscript, sentiment, now), cap)

\* handleSaveMemory while the cloud on display holds the given points: the
\* package is stored with its colours
SaveMemoryOf(points, cap) ==
    /\ particles = NoCloud <=> points = << >>
    /\ SaveAs(Colors(points)
                 @@ MemoryPackage(voiceMemories, finalizedTranscript, sentiment, now), cap)

\* handleSaveMemory
SaveMemory == SaveMemoryUpTo(MaxMemories)

\* handleRestoreMemory, called from the palace
Restore(k) ==
    /\ viewMode = "PALACE"
    /\ k \in 1..Len(savedMemories)
    /\ requests < MaxRequests
    /\ viewMode' = "LIVE"
    /\ finalizedTranscript' = savedMemories[k].transcriptSnapshot
    /\ voiceMemories' = savedMemories[k].voiceMemories
    /\ particles' = NoCloud
    /\ requests' = requests + 1
    /\ pending' = pending \cup {Request(requests + 1, "restore")}
    /\ sentiment' = savedMemories[k].sentiment
    /\ Mount("Restore", savedMemories[k].transcriptSnapshot, sceneVersion)
    /\ uniforms' = [FreshUniforms EXCEPT !.frames = uniforms.frames]
    /\ UNCHANGED << now, readingMode, savedMemories, sceneVersion, handData >>
    /\ UNCHANGED << gestureVars, recVars, interimTranscript, sampler, shownAtUpload,
                    streamer, gestureState >>
    /\ Relayout

\* onToggleView
ToggleView ==
    /\ IF viewMode = "LIVE"
       THEN /\ viewMode' = "PALACE"
            /\ tps' = Unmounted
            /\ nextId' = nextId
            /\ last' = [op |-> "ToggleView", run |-> NoRun]
            /\ gestureState' = [FreshGestureState EXCEPT !.frames = gestureState.frames]
            /\ uniforms' = uniforms
       ELSE /\ viewMode' = "LIVE"
            /\ Mount("ToggleView", finalizedTranscript, sceneVersion)
            /\ uniforms' = [FreshUniforms EXCEPT !.frames = uniforms.frames]
            /\ gestureState' = gestureState
    /\ UNCHANGED << now, readingMode, finalizedTranscript, voiceMemories, savedMemories,
                    sceneVersion, particles, pending, requests, handData >>
    /\ UNCHANGED << gestureVars, recVars >>
    /\ UNCHANGED << interimTranscript, sampler, shownAtUpload, streamer, sentiment >>
    /\ Relayout

\* handleTextClick: a click on a rendered glyph
ReadingOn ==
    /\ Mounted /\ ~readingMode
    /\ tps.textRefs # {}
    /\ readingMode' = TRUE
    /\ last' = [op |-> "ReadingOn", run |-> NoRun]
    /\ UNCHANGED << now, viewMode, finalizedTranscript, voiceMemories, savedMemories,
                    sceneVersion, particles, pending, requests, handData, tps, nextId >>
    /\ UNCHANGED << gestureVars, recVars, otherVars >>

\* onClose of ReadingOverlay
ReadingOff ==
    /\ readingMode
    /\ readingMode' = FALSE
    /\ last' = [op |-> "ReadingOff", run |-> NoRun]
    /\ UNCHANGED << now, viewMode, finalizedTranscript, voiceMemories, savedMemories,
                    sceneVersion, particles, pending, requests, handData, tps, nextId >>
    /\ UNCHANGED << gestureVars, recVars, otherVars >>

\* the handData prop changes
HandChange(h) ==
    /\ h # handData
    /\ handData' = h
    /\ last' = [op |-> "HandChange", run |-> NoRun]
    /\ UNCHANGED << now, viewMode, readingMode, finalizedTranscript, voiceMemories,
                    savedMemories, sceneVersion, particles, pending, requests, tps, nextId >>
    /\ UNCHANGED << gestureVars, recVars, otherVars >>

\* the render tick that comes dt milliseconds after the previous event
Render(dt) ==
    /\ now' = now + dt
    /\ tps' = IF Mounted THEN Frame(tps, now + dt, handData, readingMode) ELSE tps
    /\ last' = [op |-> "Tick", run |-> NoRun]
    /\ UNCHANGED << viewMode, readingMode, finalizedTranscript, voiceMemories,
                    savedMemories, sceneVersion, particles, pending, requests,
                    handData, nextId >>
    /\ UNCHANGED << gestureVars, recVars, otherVars >>

\* one render tick, dt milliseconds after the previous event
Tick(dt) ==
    /\ now + dt <= MaxNow
    /\ Render(dt)

\* the physics loop still has a glyph to take through spawn or fly
InFlight ==
    /\ Mounted
    /\ ~readingMode
    /\ \E id \in tps.physicsState \cap tps.textRefs : tps.glyphs[id].phase # "dock"

\* one render tick; time runs on past MaxNow while a glyph is in flight
TickOn(dt) ==
    /\ now + dt <= MaxNow \/ InFlight
    /\ Render(dt)

\* the transcript prop of TextParticleSystem changes (any source)
TranscriptPropUpTo(text, cap) ==
    /\ text # finalizedTranscript
    /\ finalizedTranscript' = text
    /\ RerenderUpTo("TranscriptProp", text, sceneVersion, cap)
    /\ UNCHANGED << now, viewMode, readingMode, voiceMemories, savedMemories,
                    sceneVersion, particles, pending, requests, handData >>
    /\ UNCHANGED << gestureVars, recVars >>
    /\ UNCHANGED << interimTranscript, sampler, shownAtUpload, widgetVars, sentiment >>
    /\ Relayout

TranscriptProp(text) == TranscriptPropUpTo(text, MaxGlyphs)

\* the sceneVersion prop of TextParticleSystem changes (a sampling finished)
SceneVersionPropUpTo(cap) ==
    /\ now # sceneVersion
    /\ sceneVersion' = now
    /\ RerenderUpTo("SceneVersionProp", finalizedTranscript, now, cap)
    /\ UNCHANGED << now, viewMode, readingMode, finalizedTranscript, voiceMemories,
                    savedMemories, particles, pending, requests, handData >>
    /\ UNCHANGED << gestureVars, recVars, otherVars >>

SceneVersionProp == SceneVersionPropUpTo(MaxGlyphs)

----------------------------------------------------------------------------
(* App: detectLoop, the gesture classifier                                  *)
(*                                                                          *)
(* Landmark coordinates are hundredths of the normalised image (y grows     *)
(* downwards), so 0.1 is 10, 0.05 is 5, a product of two differences is in  *)
(* ten-thousandths (0.01 is 100) and a squared distance likewise (0.08      *)
(* squared is 64).  The pointer is in hundredths too.  The frames fed to    *)
(* the loop stay off the thresholds, where floating-point rounding decides. *)

Pt(x, y) == [x |-> x, y |-> y]

\* y of the tip and of the PIP joint of a finger in the poses of the inputs
Pose(name) ==
    CASE name = "up"     -> [tip |-> 20, pip |-> 40]
      [] name = "curled" -> [tip |-> 60, pip |-> 45]
      [] name = "half"   -> [tip |-> 72, pip |-> 79]

\* a frame of landmarks: poses of index, middle and of ring and little finger,
\* the palm facing the camera or edge-on, the thumb on the index tip or apart,
\* and the x of the index finger
MkFrame(shape, palm, thumb, ix) ==
    LET index == Pose(shape[1])
        middle == Pose(shape[2])
        others == Pose(shape[3])
    IN [ k \in {0, 4, 5, 6, 8, 9, 10, 12, 14, 16, 17, 18, 20} |->
         CASE k = 0  -> Pt(50, 80)
           [] k = 4  -> IF thumb = "pinch" THEN Pt(ix + 3, index.tip + 3) ELSE Pt(20, 70)
           [] k = 5  -> IF palm = "flat" THEN Pt(40, 50) ELSE Pt(50, 50)
           [] k = 6  -> Pt(ix, index.pip)
           [] k = 8  -> Pt(ix, index.tip)
           [] k = 9  -> Pt(50, 50)
           [] k = 10 -> Pt(55, middle.pip)
           [] k = 12 -> Pt(55, middle.tip)
           [] k = 14 -> Pt(60, others.pip)
           [] k = 16 -> Pt(60, others.tip)
           [] k = 17 -> IF palm = "flat" THEN Pt(60, 52) ELSE Pt(50, 52)
           [] k = 18 -> Pt(65, others.pip)
           [] k = 20 -> Pt(65, others.tip) ]

Shapes ==
    { << "curled", "curled", "curled" >>, << "up", "curled", "curled" >>,
      << "curled", "up", "curled" >>, << "half", "up", "curled" >>,
      << "up", "up", "curled" >>, << "up", "up", "up" >> }

IndexXs == {50, 51}

Frames ==
    { MkFrame(s, palm, thumb, ix) :
        s \in Shapes, palm \in {"flat", "edge"}, thumb \in {"pinch", "apart"}, ix \in IndexXs }

MaxPollNow == 65        \* polls stop at this time

PollSteps == {0, 16, 48}

ExtendedFingers(landmarks) ==
    Cardinality({ idx \in {8, 12, 16, 20} :
                    /\ landmarks[0].y - landmarks[idx].y > 10
                    /\ landmarks[idx - 2].y - landmarks[idx].y > 5 })

PalmNormalZ(landmarks) ==
    LET ax == landmarks[5].x - landmarks[0].x
        ay == landmarks[5].y - landmarks[0].y
        bx == landmarks[17].x - landmarks[0].x
        by == landmarks[17].y - landmarks[0].y
    IN ax * by - ay * bx

\* the square of pinchDistance
PinchDistance2(landmarks) ==
    LET dx == landmarks[4].x - landmarks[8].x
        dy == landmarks[4].y - landmarks[8].y
    IN dx * dx + dy * dy

\* px, py
Pointer(landmarks) == Pt(-(landmarks[8].x - 50) * 2, -(landmarks[8].y - 50) * 2)

\* velocity 0
Still == [d2 |-> 0, dt |-> 1]

\* velocity = sqrt(d2) / dt, kept as the squared displacement (hundredths
\* squared) and the elapsed milliseconds
Velocity(p, lastPointer, lastTime, t) ==
    IF lastPointer # Null /\ lastTime # 0
    THEN LET dt == t - lastTime
             dx == p.x - lastPointer.x
             dy == p.y - lastPointer.y
         IN IF dt > 0 THEN [d2 |-> dx * dx + dy * dy, dt |-> dt] ELSE Still
    ELSE Still

\* velocity > 0.5:  (sqrt(d2) / 100) / (dt / 1000) > 1/2
Fast(v) == 400 * v.d2 > v.dt * v.dt

IndexExtended(landmarks) == landmarks[6].y - landmarks[8].y > 5

\* mutant of Classify: the open hand is tested before the pinch
ClassifyOpenFirst(landmarks, v) ==
    LET extendedFingers == ExtendedFingers(landmarks)
    IN IF extendedFingers >= 4 THEN "OPEN"
       ELSE IF PinchDistance2(landmarks) < 64 THEN "PINCH"
       ELSE IF extendedFingers <= 1 /\ Abs(PalmNormalZ(landmarks)) > 100 THEN "CLOSED"
       ELSE IF extendedFingers = 1 /\ Fast(v)
            THEN IF IndexExtended(landmarks) THEN "SWIPE" ELSE "IDLE"
       ELSE "IDLE"

Classify(landmarks, v) ==
    LET extendedFingers == ExtendedFingers(landmarks)
    IN IF PinchDistance2(landmarks) < 64 THEN "PINCH"
       ELSE IF extendedFingers >= 4 THEN "OPEN"
       ELSE IF extendedFingers <= 1 /\ Abs(PalmNormalZ(landmarks)) > 100 THEN "CLOSED"
       ELSE IF extendedFingers = 1 /\ Fast(v)
            THEN IF IndexExtended(landmarks) THEN "SWIPE" ELSE "IDLE"
       ELSE "IDLE"

\* the HandData of a detected frame; an angle atan2(dy, dx) is kept as its
\* two arguments
Detected(landmarks, p, gesture) ==
    [ gesture |-> gesture,
      position |-> [x |-> -(landmarks[9].x - 50) * 2, y |-> -(landmarks[9].y - 50) * 2, z |-> 0],
      palmCenter |-> Pt(-(landmarks[9].x - 50) * 2, -(landmarks[9].y - 50) * 2),
      pointer |-> p,
      rotation |-> [ x |-> [dy |-> landmarks[9].y - landmarks[0].y,
                            dx |-> landmarks[9].x - landmarks[0].x],
                     y |-> [dy |-> landmarks[5].y - landmarks[17].y,
                            dx |-> landmarks[5].x - landmarks[17].x] ],
      detected |-> TRUE,
      pinchDistance2 |-> PinchDistance2(landmarks) ]

\* mutant of LostHand: the label of the last detection is kept
LostHandKeepsLabel(prev) ==
    IF prev # Null THEN [prev EXCEPT !.detected = FALSE] ELSE Null

\* setHandData(prev => ...) of the branch without a hand
LostHand(prev) ==
    IF prev # Null THEN [prev EXCEPT !.detected = FALSE, !.gesture = "IDLE"] ELSE Null

\* mutant of ClearedPointer: the cached pointer survives the gap
KeptPointer(lastPointer) == lastPointer

\* lastPointerRef.current = null
ClearedPointer(lastPointer) == Null

\* what the detector does on a frame without a hand: handLandmarker is not
\* there (its initialisation failed), detectForVideo throws, or it returns a
\* result without landmarks
NoHandOutcomes == {"unready", "error", "empty"}

\* mutant of DetectHands: the error of detectForVideo is not caught
DetectHandsUncaught(outcome) ==
    IF outcome = "unready" THEN [status |-> "null"]
    ELSE IF outcome = "error" THEN [status |-> "thrown"]
    ELSE [status |-> "result", hands |-> 0]

\* detectHands on a frame without a hand: null, or a result with no landmarks
DetectHands(outcome) ==
    IF outcome = "unready" THEN [status |-> "null"]
    ELSE IF outcome = "error" THEN [status |-> "null"]
    ELSE [status |-> "result", hands |-> 0]

appVars == << viewMode, readingMode, finalizedTranscript, voiceMemories, savedMemories,
              sceneVersion, particles, pending, requests, tps, nextId, last >>

\* a poll of detectLoop whose detector returns the landmarks of a hand
DetectHand(landmarks, dt) ==
    /\ poll.scheduled
    /\ now + dt <= MaxPollNow
    /\ now' = now + dt
    /\ LET t == now + dt
           p == Pointer(landmarks)
           v == Velocity(p, lastPointerRef, lastTimeRef, t)
       IN /\ handData' = Detected(landmarks, p, Classify(landmarks, v))
          /\ lastPointerRef' = p
          /\ lastTimeRef' = t
          /\ poll' = [ kind |-> "hand", ran |-> "hand", prevRan |-> poll.ran,
                       frame |-> landmarks, velocity |-> v,
                       moved |-> handData # Null /\ handData.pointer # p,
                       outcome |-> "hand", scheduled |-> TRUE ]
    /\ UNCHANGED << appVars, recVars, otherVars >>

\* a poll of detectLoop whose detector finds no hand (or fails); an exception
\* would leave detectLoop before requestAnimationFrame
DetectNone(outcome, dt) ==
    /\ poll.scheduled
    /\ now + dt <= MaxPollNow
    /\ now' = now + dt
    /\ IF DetectHands(outcome).status = "thrown"
       THEN /\ handData' = handData
            /\ lastPointerRef' = lastPointerRef
            /\ poll' = [poll EXCEPT !.kind = "thrown", !.outcome = outcome,
                                    !.scheduled = FALSE]
       ELSE /\ handData' = LostHand(handData)
            /\ lastPointerRef' = ClearedPointer(lastPointerRef)
            /\ poll' = [ kind |-> "none", ran |-> "none", prevRan |-> poll.ran,
                         frame |-> Null, velocity |-> Still,
                         moved |-> FALSE,
                         outcome |-> outcome, scheduled |-> TRUE ]
    /\ UNCHANGED << lastTimeRef, appVars, recVars, otherVars >>

\* a poll of detectLoop while the video has no frame yet: nothing but the
\* next requestAnimationFrame
DetectSkip(dt) ==
    /\ poll.scheduled
    /\ now + dt <= MaxPollNow
    /\ now' = now + dt
    /\ poll' = [poll EXCEPT !.kind = "skip"]
    /\ UNCHANGED << handData, lastPointerRef, lastTimeRef, appVars, recVars, otherVars >>

----------------------------------------------------------------------------
(* App: recording.  The recognition session is idle, listening, or stopping *)
(* (stop() was called and the end event is still to come).                  *)

MaxStreams == 3         \* getUserMedia calls of one behaviour that are pending or granted

\* recognition.start(): throws unless the session is idle, and the handler
\* swallows the exception
StartRecognition(r) == IF r = "idle" THEN "listening" ELSE r

\* recognition.stop()
StopRecognition(r) == IF r = "listening" THEN "stopping" ELSE r

\* mutant of AfterEnd: the ended session is always started again
AfterEndAlways(recordingRef) == StartRecognition("idle")

\* recognition.onend
AfterEnd(recordingRef) == IF recordingRef THEN StartRecognition("idle") ELSE "idle"

sceneVars == << now, viewMode, readingMode, finalizedTranscript, voiceMemories,
                savedMemories, sceneVersion, particles, pending, requests,
                handData, tps, nextId, last, gestureVars, otherVars >>

MaxAnalyses == 2        \* ondataavailable handlers that await the analysis

\* e.data.size of a chunk: empty or not
ChunkSizes == {0, 1}

\* ondataavailable up to the await: a chunk with data starts an analysis
AfterChunk(emitted, size, awaited) ==
    IF emitted /\ size > 0 THEN awaited + 1 ELSE awaited

\* what analyzeAudioSentiment resolves with: a label with confidence 1, or
\* NEUTRAL with confidence 0 when the text is empty or the request failed
AnalysisResults ==
    { [sentiment |-> "positive", confidence |-> 1],
      [sentiment |-> "negative", confidence |-> 1],
      [sentiment |-> "neutral", confidence |-> 1],
      [sentiment |-> "neutral", confidence |-> 0] }

\* mutant of ApplySentiment: every result is taken over
ApplySentimentAlways(result, current) == result.sentiment

\* if (result.sentiment !== Sentiment.NEUTRAL) setSentiment(result.sentiment)
ApplySentiment(result, current) ==
    IF result.sentiment # "neutral" THEN result.sentiment ELSE current

\* handleToggleRecording, start branch up to the await; the re-render syncs
\* isRecordingRef
ToggleStart ==
    /\ ~isRecording
    /\ acquiring + Len(recorders) < MaxStreams
    /\ recognition' = StartRecognition(recognition)
    /\ isRecording' = TRUE
    /\ isRecordingRef' = TRUE
    /\ acquiring' = acquiring + 1
    /\ recLast' = "ToggleStart"
    /\ UNCHANGED << micStreams, recorders, mediaRecorderRef, timers,
                    sentimentIntervalRef, analysing, sceneVars >>

\* handleToggleRecording, start branch after getUserMedia resolved
AcquireOk ==
    /\ acquiring > 0
    /\ LET n == Len(recorders) + 1
       IN /\ micStreams' = micStreams \cup {n}
          /\ recorders' = Append(recorders, [state |-> "recording", stream |-> n])
          /\ mediaRecorderRef' = n
          /\ timers' = Append(timers, [recorder |-> n, live |-> TRUE])
          /\ sentimentIntervalRef' = Len(timers) + 1
    /\ acquiring' = acquiring - 1
    /\ recLast' = "AcquireOk"
    /\ UNCHANGED << isRecording, isRecordingRef, recognition, analysing, sceneVars >>

\* handleToggleRecording, start branch after getUserMedia rejected
AcquireFail ==
    /\ acquiring > 0
    /\ acquiring' = acquiring - 1
    /\ recLast' = "AcquireFail"
    /\ UNCHANGED << isRecording, isRecordingRef, recognition, micStreams, recorders,
                    mediaRecorderRef, timers, sentimentIntervalRef, analysing, sceneVars >>

\* handleToggleRecording, stop branch; the re-render syncs isRecordingRef.
\* Stopping the recorder delivers its last chunk to ondataavailable
ToggleStop ==
    /\ isRecording
    /\ recognition' = StopRecognition(recognition)
    /\ isRecording' = FALSE
    /\ isRecordingRef' = FALSE
    /\ recorders' = IF mediaRecorderRef # 0
                    THEN [recorders EXCEPT ![mediaRecorderRef].state = "inactive"]
                    ELSE recorders
    /\ mediaRecorderRef' = 0
    /\ timers' = IF sentimentIntervalRef # 0
                 THEN [timers EXCEPT ![sentimentIntervalRef].live = FALSE]
                 ELSE timers
    /\ sentimentIntervalRef' = 0
    /\ \E size \in ChunkSizes :
          /\ analysing' = AfterChunk(mediaRecorderRef # 0, size, analysing)
          /\ analysing' <= MaxAnalyses
    /\ recLast' = "ToggleStop"
    /\ UNCHANGED << acquiring, micStreams, sceneVars >>

\* the recognition session ends, by stop() or by itself, and onend runs
OnEnd ==
    /\ recognition \in {"listening", "stopping"}
    /\ recognition' = AfterEnd(isRecordingRef)
    /\ recLast' = "OnEnd"
    /\ UNCHANGED << isRecording, isRecordingRef, acquiring, micStreams, recorders,
                    mediaRecorderRef, timers, sentimentIntervalRef, analysing, sceneVars >>

\* the 4-second interval callback of timer k: a recording recorder is stopped,
\* which delivers a chunk to ondataavailable, and started again, which leaves
\* it recording
ChunkTick(k) ==
    /\ k \in 1..Len(timers)
    /\ timers[k].live
    /\ recorders' = [recorders EXCEPT ![timers[k].recorder].state =
                        IF @ = "recording" THEN "recording" ELSE @]
    /\ \E size \in ChunkSizes :
          /\ analysing' = AfterChunk(recorders[timers[k].recorder].state = "recording",
                                      size, analysing)
          /\ analysing' <= MaxAnalyses
    /\ recLast' = "ChunkTick"
    /\ UNCHANGED << isRecording, isRecordingRef, recognition, acquiring, micStreams,
                    mediaRecorderRef, timers, sentimentIntervalRef, sceneVars >>

\* ondataavailable after the await: analyzeAudioSentiment resolved
SentimentResult(result) ==
    /\ analysing > 0
    /\ analysing' = analysing - 1
    /\ sentiment' = ApplySentiment(result, sentiment)
    /\ recLast' = IF result.confidence = 0 THEN "AnalysisUnavailable" ELSE "AnalysisDone"
    /\ UNCHANGED << isRecording, isRecordingRef, recognition, acquiring, micStreams,
                    recorders, mediaRecorderRef, timers, sentimentIntervalRef >>
    /\ UNCHANGED << now, viewMode, readingMode, finalizedTranscript, voiceMemories,
                    savedMemories, sceneVersion, particles, pending, requests,
                    handData, tps, nextId, last, gestureVars, interimTranscript,
                    sampler, shownAtUpload, targetPositions, widgetVars >>

----------------------------------------------------------------------------
(* processImageToParticles: the sampling loop.  The image is drawn onto a   *)
(* canvas of 800 x 800 (aspect ratio 1); a colour channel is a byte, so the *)
(* r, g, b of a point are in 1/255, its x and y in 1/80, its z in 1/51000   *)
(* and its random in hundredths.                                            *)

MaxTarget == 2          \* largest targetCount

AttemptFactor == 200

AlphaThreshold == 20

width == 800

RGBA(r, g, b, a) == [r |-> r, g |-> g, b |-> b, a |-> a]

\* the pixels the draws can hit: the centre and one half-way to the edge
Pixels == { Pt(400, 400), Pt(600, 400) }

Images ==
    { [px \in Pixels |-> RGBA(0, 0, 0, 0)],
      [px \in Pixels |-> RGBA(255, 255, 255, 20)],
      [px \in Pixels |-> IF px = Pt(400, 400) THEN RGBA(255, 128, 0, 255)
                                              ELSE RGBA(10, 10, 10, 21)],
      [px \in Pixels |-> IF px = Pt(400, 400) THEN RGBA(0, 0, 0, 0)
                                              ELSE RGBA(200, 200, 200, 255)] }

\* values of Math.random() stored in a point
RandomValues == {0, 99}

\* the square of distFromCenter, in 1/800 squared
DistSq(px) ==
    LET nx == px.x * 2 - width
        ny == px.y * 2 - width
    IN nx * nx + ny * ny

\* the outcomes of Math.random() < Math.pow(distFromCenter, 1.5)
FarDraws(px) ==
    IF DistSq(px) = 0 THEN {FALSE}
    ELSE IF DistSq(px) >= width * width THEN {TRUE}
    ELSE BOOLEAN

\* luminance = 0.21 * r + 0.72 * g + 0.07 * b, in 1/25500
Luminance(v) == 21 * v.r + 72 * v.g + 7 * v.b

\* mutant of Depth: darker is closer
DepthDarkerCloser(v) == (12750 - Luminance(v)) * 5

\* zDepth = (luminance - 0.5) * 2.5
Depth(v) == (Luminance(v) - 12750) * 5

SampledPoint(px, v, rnd) ==
    [ x |-> px.x - 400, y |-> -(px.y - 400), z |-> Depth(v),
      originalX |-> px.x - 400, originalY |-> -(px.y - 400), originalZ |-> Depth(v),
      r |-> v.r, g |-> v.g, b |-> v.b, random |-> rnd ]

FallbackPoint ==
    [ x |-> 0, y |-> 0, z |-> 0, originalX |-> 0, originalY |-> 0, originalZ |-> 0,
      r |-> 255, g |-> 255, b |-> 255, random |-> 0 ]

\* mutant of LoopContinues: the loop runs while particles.length <= targetCount
LoopOneMore(s) ==
    /\ Len(s.particles) <= s.targetCount
    /\ s.attempts < s.targetCount * AttemptFactor

\* mutant of LoopContinues: the loop has no attempt budget
LoopNoBudget(s) == Len(s.particles) < s.targetCount

\* the condition of the while loop
LoopContinues(s) ==
    /\ Len(s.particles) < s.targetCount
    /\ s.attempts < s.targetCount * AttemptFactor

\* mutant of WithFallback: an empty result is resolved as it is
WithoutFallback(ps) == ps

\* the fallback point of an empty result
WithFallback(ps) == IF Len(ps) = 0 THEN << FallbackPoint >> ELSE ps

samplerFrame == << now, viewMode, readingMode, finalizedTranscript, voiceMemories,
                   savedMemories, sceneVersion, particles, pending, requests,
                   handData, tps, nextId, last, gestureVars, recVars,
                   interimTranscript, shownAtUpload, sentiment, targetPositions,
                   widgetVars >>

\* img.onload up to the loop
SampleBegin(targetCount, image) ==
    /\ sampler.status = "idle"
    /\ sampler' = [ status |-> "loop", targetCount |-> targetCount, image |-> image,
                    attempts |-> 0, particles |-> << >> ]
    /\ UNCHANGED samplerFrame

\* img.onerror, or no 2d context: the promise rejects
SampleReject ==
    /\ sampler.status = "idle"
    /\ sampler' = [sampler EXCEPT !.status = "rejected"]
    /\ UNCHANGED samplerFrame

\* one iteration of the loop: the pixel drawn, the two draws of the vignette
\* test and the random stored in the point
SampleAttempt(px, far, thin, rnd) ==
    /\ sampler.status = "loop"
    /\ LoopContinues(sampler)
    /\ far \in FarDraws(px)
    /\ LET v == sampler.image[px]
           skip == far /\ thin
       IN sampler' = [ sampler EXCEPT
                         !.attempts = @ + 1,
                         !.particles = IF ~skip /\ v.a > AlphaThreshold
                                       THEN Append(@, SampledPoint(px, v, rnd))
                                       ELSE @ ]
    /\ UNCHANGED samplerFrame

\* the loop has ended: fallback and resolve
SampleResolve ==
    /\ sampler.status = "loop"
    /\ ~LoopContinues(sampler)
    /\ sampler' = [ sampler EXCEPT !.status = "resolved",
                                   !.particles = WithFallback(@) ]
    /\ UNCHANGED samplerFrame

SampleStep ==
    \/ \E px \in Pixels, far \in BOOLEAN, thin \in BOOLEAN, rnd \in RandomValues :
          SampleAttempt(px, far, thin, rnd)
    \/ SampleResolve

----------------------------------------------------------------------------
(* SpecSearch inputs: the palace of earlier sessions and the spoken queries *)

\* recognition.onresult with interim results only
SpeechInterim(text) ==
    /\ text # << >>
    /\ interimTranscript' = text
    /\ last' = [op |-> "SpeechInterim", run |-> NoRun]
    /\ UNCHANGED << now, viewMode, readingMode, finalizedTranscript, voiceMemories,
                    savedMemories, sceneVersion, particles, pending, requests,
                    handData, tps, nextId >>
    /\ UNCHANGED << gestureVars, recVars, sampler, shownAtUpload, widgetVars, sentiment >>
    /\ Relayout

MaxHeard == 3           \* final speech results of one behaviour with mixed events

\* recognition.onresult with any results: the final results of the event come
\* first, the texts of the non-final ones are joined to interim.  The state
\* updates of one event are rendered together.
SpeechResults(finals, interim) ==
    LET finalText == IF finals = << >> THEN finalizedTranscript ELSE finals[Len(finals)]
    IN /\ finals # << >> \/ interim # << >>
       /\ Len(voiceMemories) + Len(finals) <= MaxHeard
       /\ finalizedTranscript' = finalText
       /\ voiceMemories' =
             voiceMemories \o [k \in 1..Len(finals) |-> VoiceMemory(finals[k], sentiment, now)]
       /\ interimTranscript' = IF interim # << >> THEN interim
                               ELSE IF finals # << >> THEN << >> ELSE interimTranscript
       /\ Rerender("SpeechResults", finalText, sceneVersion)
       /\ UNCHANGED << now, viewMode, readingMode, savedMemories, sceneVersion,
                       particles, pending, requests, handData >>
       /\ UNCHANGED << gestureVars, recVars, sampler, shownAtUpload, widgetVars, sentiment >>
       /\ Relayout

\* the final results of one event, and the joined text of its non-final ones
FinalResults == { << >>, << <<"H">> >>, << <<"H">>, <<"I">> >> }

InterimResults == { << >>, <<"Y", "O">> }

MaxSaved == 3           \* memories in the palace when the search starts

\* what was said in the sessions saved before, and the sentiment heard
Sessions ==
    { [voice |-> << <<"S", "e", "a", " ", "s", "u", "n">> >>, sentiment |-> "neutral"],
      [voice |-> << <<"t", "h", "e">>, <<"s", "e", "a">> >>, sentiment |-> "positive"],
      [voice |-> << <<"U+5C71", "U+6D77">> >>, sentiment |-> "negative"],
      [voice |-> << <<"t", "h", "e">> >>, sentiment |-> "neutral"] }

\* the lists handleSaveMemory builds, newest first, one save every 3 seconds
MemoryLists ==
    UNION { { [k \in 1..n |->
                 LET t == 1 + 3000 * (n - k)
                     voice == [i \in 1..Len(ss[k].voice) |->
                                  VoiceMemory(ss[k].voice[i], ss[k].sentiment, t)]
                 IN MemoryPackage(voice, << >>, ss[k].sentiment, t)] :
              ss \in [1..n -> Sessions] } : n \in 0..MaxSaved }

Queries ==
    { <<"s", "e", "a">>,
      <<"S", "e", "a", " ", "s", "u", "n">>,
      <<"S", "e", "a", ",", " ", "s", "u", "n", " ", "s", "k", "y">>,
      <<"U+5C71", "U+6D77">>,
      <<"t", "h", "e">>,
      <<"p", "o", "s", "i", "t", "i", "v", "e">>,
      <<"m", "o", "o", "n">>,
      <<"U+6D77">>,
      <<"U+5C71", " ", "U+7684">> }

\* the palace holds the memories of earlier sessions
InitSearch ==
    /\ now = 1 + 3000 * MaxSaved
    /\ savedMemories \in MemoryLists
    /\ InitRest

----------------------------------------------------------------------------
(* SpecPalace inputs: palaces of a few memories and a crowded one           *)

MaxHung == 31           \* memories in the crowded palace

PalaceSizes == (0..5) \cup {MaxHung}

SeaSession == [voice |-> << <<"S", "e", "a", " ", "s", "u", "n">> >>, sentiment |-> "neutral"]

TheSeaSession == [voice |-> << <<"t", "h", "e">>, <<"s", "e", "a">> >>, sentiment |-> "positive"]

HillSession == [voice |-> << <<"U+5C71", "U+6D77">> >>, sentiment |-> "negative"]

\* which session the k-th newest of n memories was saved in
Hangings ==
    { [n \in PalaceSizes |-> [k \in 1..n |-> SeaSession]],
      [n \in PalaceSizes |-> [k \in 1..n |-> IF k = 1 THEN HillSession ELSE SeaSession]],
      [n \in PalaceSizes |-> [k \in 1..n |-> IF k = n THEN SeaSession ELSE HillSession]],
      [n \in PalaceSizes |-> [k \in 1..n |->
           IF k % 3 = 1 THEN HillSession ELSE IF k % 3 = 2 THEN TheSeaSession ELSE SeaSession]] }

PalaceLists ==
    { [k \in 1..n |->
         LET t == 1 + 3000 * (n - k)
             session == hanging[n][k]
             voice == [i \in 1..Len(session.voice) |->
                          VoiceMemory(session.voice[i], session.sentiment, t)]
         IN MemoryPackage(voice, << >>, session.sentiment, t)] :
      n \in PalaceSizes, hanging \in Hangings }

PalaceQueries ==
    { <<"s", "e", "a">>,
      <<"S", "e", "a", ",", " ", "s", "u", "n", " ", "s", "k", "y">>,
      <<"m", "o", "o", "n">>,
      <<"t", "h", "e">> }

InitPalace ==
    /\ now = 1 + 3000 * MaxHung
    /\ savedMemories \in PalaceLists
    /\ InitRest

----------------------------------------------------------------------------
(* Spec: TextParticleSystem under every sequence of prop changes, mounts,   *)
(* reading-mode toggles, gesture changes and render ticks                   *)

Next ==
    \/ \E text \in PropTexts : TranscriptProp(text)
    \/ SceneVersionProp
    \/ ToggleView
    \/ ReadingOn
    \/ ReadingOff
    \/ \E h \in HandInputs : HandChange(h)
    \/ \E dt \in TickSteps : Tick(dt)

Spec == Init /\ [][Next]_vars

----------------------------------------------------------------------------
(* SpecApp: the handlers of App driving the sampling requests and the scene *)

NextApp ==
    \/ \E text \in SpeechTexts : SpeechFinal(text)
    \/ Upload
    \/ SetDensity
    \/ \E r \in pending : Resolve(r)
    \/ SaveMemory
    \/ \E k \in 1..MaxMemories : Restore(k)
    \/ ToggleView
    \/ \E dt \in AppTickSteps : Tick(dt)

SpecApp == Init /\ [][NextApp]_vars

----------------------------------------------------------------------------
(* SpecFail: the handlers of App when an image can fail to decode           *)

NextFail ==
    \/ NextApp
    \/ \E r \in pending : Reject(r)

SpecFail == Init /\ [][NextFail]_vars

----------------------------------------------------------------------------
(* SpecCap: TextParticleSystem fed with long transcripts, up to the cap     *)

NextCap ==
    \/ \E text \in LongTexts : TranscriptPropUpTo(text, MaxLongGlyphs)
    \/ SceneVersionPropUpTo(MaxLongGlyphs)
    \/ \E dt \in AppTickSteps : Tick(dt)

SpecCap == Init /\ [][NextCap]_vars

----------------------------------------------------------------------------
(* SpecGesture: the polls of detectLoop over the input frames               *)

NextGesture ==
    \/ \E landmarks \in Frames, dt \in PollSteps : DetectHand(landmarks, dt)
    \/ \E outcome \in NoHandOutcomes, dt \in PollSteps : DetectNone(outcome, dt)
    \/ \E dt \in PollSteps : DetectSkip(dt)

SpecGesture == Init /\ [][NextGesture]_vars

----------------------------------------------------------------------------
(* SpecRec: the record button, the microphone and the recognition session   *)

NextRec ==
    \/ ToggleStart
    \/ AcquireOk
    \/ AcquireFail
    \/ ToggleStop
    \/ OnEnd
    \/ \E k \in 1..MaxStreams : ChunkTick(k)
    \/ \E result \in AnalysisResults : SentimentResult(result)

SpecRec == Init /\ [][NextRec]_vars

----------------------------------------------------------------------------
(* SpecSpeech: speech results while the microphone is recorded and analysed *)

NextSpeech ==
    \/ \E finals \in FinalResults, interim \in InterimResults : SpeechResults(finals, interim)
    \/ ToggleStart
    \/ AcquireOk
    \/ \E k \in 1..MaxStreams : ChunkTick(k)
    \/ \E result \in AnalysisResults : SentimentResult(result)
    \/ \E dt \in AppTickSteps : Tick(dt)

SpecSpeech == Init /\ [][NextSpeech]_vars

----------------------------------------------------------------------------
(* SpecScene: ParticleScene with a point cloud, under every sentiment and   *)
(* reading mode and every sequence of hands and frames                      *)

Sentiments == {"neutral", "positive", "negative"}

SceneHands ==
    { Null, Hand("IDLE", FALSE), Hand("IDLE", TRUE), Hand("OPEN", TRUE),
      Hand("CLOSED", TRUE), Hand("SWIPE", TRUE), Hand("PINCH", TRUE) }

InitScene ==
    /\ now = 1
    /\ savedMemories = << >>
    /\ viewMode = "LIVE"
    /\ readingMode \in BOOLEAN
    /\ finalizedTranscript = << >>
    /\ voiceMemories = << >>
    /\ sceneVersion = 1
    /\ particles = Request(1, "mount")
    /\ pending = {}
    /\ requests = 1
    /\ handData = Null
    /\ tps = FreshTps(0)
    /\ nextId = 0
    /\ last = [op |-> "Init", run |-> NoRun]
    /\ lastPointerRef = Null
    /\ lastTimeRef = 0
    /\ poll = NoPoll
    /\ isRecording = FALSE
    /\ isRecordingRef = FALSE
    /\ recognition = "idle"
    /\ acquiring = 0
    /\ micStreams = {}
    /\ recorders = << >>
    /\ mediaRecorderRef = 0
    /\ timers = << >>
    /\ sentimentIntervalRef = 0
    /\ recLast = "Init"
    /\ interimTranscript = << >>
    /\ sampler = NoSampling
    /\ shownAtUpload = NoCloud
    /\ sentiment \in Sentiments
    /\ targetPositions = Null
    /\ uniforms = FreshUniforms
    /\ streamer = NewStreamer
    /\ gestureState = FreshGestureState
    /\ analysing = 0

NextScene ==
    \/ \E h \in SceneHands : HandChange(h)
    \/ SceneFrame

SpecScene == InitScene /\ [][NextScene]_vars

----------------------------------------------------------------------------
(* SpecStreamer: AudioStreamer under every interleaving of its calls with   *)
(* the socket, the timeout and the microphone                               *)

NextStreamer ==
    \/ StartRecording
    \/ StopRecording
    \/ SocketOpen
    \/ SocketClose
    \/ \E n \in 1..MaxCalls : ConnectWaitOver(n)
    \/ \E n \in 1..MaxCalls : MicGranted(n)
    \/ \E n \in 1..MaxCalls : MicDenied(n)

SpecStreamer == Init /\ [][NextStreamer]_vars

----------------------------------------------------------------------------
(* SpecHall: the gesture control of MemoryPalace under every sequence of    *)
(* hands, frames and view changes                                           *)

NextHall ==
    \/ ToggleView
    \/ \E h \in PalaceHands : HandChange(h)
    \/ PalaceFrame

SpecHall == Init /\ [][NextHall]_vars

----------------------------------------------------------------------------
(* SpecKeep: memories are saved, searched in the palace and restored        *)

MaxKept == 2            \* memories saved in one behaviour

KeepQueries == { <<"H">>, <<"t", "h", "e">> }

NextKeep ==
    \/ \E text \in SpeechTexts : SpeechFinal(text)
    \/ SaveMemoryUpTo(MaxKept)
    \/ \E k \in 1..MaxKept : Restore(k)
    \/ ToggleView
    \/ \E text \in KeepQueries : SpeechInterim(text)
    \/ \E dt \in AppTickSteps : Tick(dt)

SpecKeep == Init /\ [][NextKeep]_vars

----------------------------------------------------------------------------
(* SpecMap: TextParticleSystem with long transcripts, transcripts that are  *)
(* cleared, scene changes and remounts                                      *)

MapTexts == { << >>, Rep("a", 300), Rep("a", 301), Rep("b", 250) }

NextMap ==
    \/ \E text \in MapTexts : TranscriptPropUpTo(text, MaxLongGlyphs)
    \/ SceneVersionPropUpTo(MaxLongGlyphs)
    \/ ToggleView

SpecMap == Init /\ [][NextMap]_vars

----------------------------------------------------------------------------
(* SpecPalette: memories are saved with their colours, for clouds of every  *)
(* size                                                                     *)

NextPalette ==
    \/ \E points \in Clouds : SaveMemoryOf(points, MaxKept)
    \/ \E r \in pending : Resolve(r)
    \/ Upload
    \/ \E text \in SpeechTexts : SpeechFinal(text)
    \/ \E dt \in AppTickSteps : Tick(dt)

SpecPalette == Init /\ [][NextPalette]_vars

----------------------------------------------------------------------------
(* SpecFly: TextParticleSystem on one scene, with render ticks that keep    *)
(* occurring                                                                *)

FlySteps == {1500}

FlyTexts == { <<"H", "I">>, <<"Y">> }

NextFly ==
    \/ \E text \in FlyTexts : TranscriptProp(text)
    \/ ReadingOn
    \/ ReadingOff
    \/ \E dt \in FlySteps : TickOn(dt)

SpecFly == Init /\ [][NextFly]_vars /\ WF_vars(\E dt \in FlySteps : TickOn(dt))

----------------------------------------------------------------------------
(* SpecSample: one call of processImageToParticles; the loop is synchronous *)
(* code and runs on until it ends                                           *)

NextSample ==
    \/ \E targetCount \in 1..MaxTarget, image \in Images : SampleBegin(targetCount, image)
    \/ SampleReject
    \/ SampleStep

SpecSample == Init /\ [][NextSample]_vars /\ WF_vars(SampleStep)

----------------------------------------------------------------------------
(* SpecSearch: the voice search over a palace of saved memories             *)

NextSearch ==
    \/ \E text \in Queries : SpeechInterim(text)
    \/ ToggleView

SpecSearch == InitSearch /\ [][NextSearch]_vars

----------------------------------------------------------------------------
(* SpecPalace: the layout of the palace under the voice search              *)

NextPalace ==
    \/ \E text \in PalaceQueries : SpeechInterim(text)
    \/ ToggleView

SpecPalace == InitPalace /\ [][NextPalace]_vars

----------------------------------------------------------------------------
(* Properties of the glyph life cycle *)

PhaseRank(ph) == IF ph = "spawn" THEN 0 ELSE IF ph = "fly" THEN 1 ELSE 2

\* the spawn effect ran in this step on the mounted component (no mount)
EffectRan ==
    /\ viewMode = "LIVE" /\ viewMode' = "LIVE"
    /\ (finalizedTranscript' # finalizedTranscript \/ sceneVersion' # sceneVersion)

\* the glyph objects created in this step, in creation order
Created == [k \in 1..(nextId' - nextId) |-> nextId + k]

\* the created glyphs carry the characters of text, in order, and are in spawn
CreatedSpell(text) ==
    /\ Len(Created) = Len(text)
    /\ \A k \in 1..Len(text) :
          /\ Created[k] \in DOMAIN tps'.glyphs
          /\ tps'.glyphs[Created[k]].char = text[k]
          /\ tps'.glyphs[Created[k]].phase = "spawn"

\* C1: the phase of a glyph only ever changes spawn -> fly and fly -> dock;
\* no step takes a glyph back to an earlier phase or past the next one.
C1_PhaseMonotonic ==
    [][ \A id \in DOMAIN tps.glyphs \cap DOMAIN tps'.glyphs :
          LET a == tps.glyphs[id].phase
              b == tps'.glyphs[id].phase
          IN b = a \/ (a = "spawn" /\ b = "fly") \/ (a = "fly" /\ b = "dock") ]_vars

\* C1 witness: a glyph has gone through spawn and fly and is docked while another
\* batch is still in an earlier phase
C1_Witness ==
    /\ \E id \in DOMAIN tps.glyphs : tps.glyphs[id].phase = "dock"
    /\ \E id \in DOMAIN tps.glyphs : tps.glyphs[id].phase # "dock"

\* C2: after every spawn batch at most MAX_CHARS glyphs are live; a batch that
\* takes the list above MAX_CHARS removes exactly the oldest excess, and each
\* removed glyph loses its physics-state entry and its render handle with it.
C2_CapEvictsOldest ==
    /\ [](Len(tps.particles) <= MAX_CHARS)
    /\ [][ (nextId' > nextId) =>
            LET combined == tps.particles \o Created
                excess == Max(0, Len(combined) - MAX_CHARS)
                removed == { combined[k] : k \in 1..excess }
            IN /\ tps'.particles = SubSeq(combined, excess + 1, Len(combined))
               /\ removed \cap tps'.physicsState = {}
               /\ removed \cap tps'.textRefs = {}
               /\ Range(tps'.particles) \subseteq tps'.physicsState
               /\ Range(tps'.particles) \subseteq tps'.textRefs ]_vars

\* C2 witness: a batch has just evicted glyphs, and the list is full
C2_Witness ==
    /\ Len(last.run.evicted) > 0
    /\ Len(tps.particles) = MAX_CHARS

\* C3: once no sampling request is outstanding, the installed point cloud is
\* the result of the newest request.
C3_NewestRequestWins ==
    (pending = {} /\ requests >= 2) => particles.id = requests

\* C9: when the new transcript starts with the transcript processed before and
\* the scene version is the one processed before, the effect creates exactly
\* the appended characters, in order, and nothing when nothing was appended.
C9_AppendSpawnsSuffix ==
    [][ ( /\ EffectRan
          /\ StartsWith(finalizedTranscript', tps.lastTranscriptRef)
          /\ sceneVersion' = tps.lastSceneVersionRef )
        => /\ CreatedSpell(Slice(finalizedTranscript', Len(tps.lastTranscriptRef)))
           /\ tps'.particles = tps.particles \o Created ]_vars

\* C9 witness: an append of one character to a transcript already on screen
C9_Witness ==
    /\ last.run.mode = "append"
    /\ Len(last.run.created) = 1
    /\ Len(finalizedTranscript) = 2
    /\ Len(tps.particles) = 2

\* C10: a scene reset that arrives with a non-empty transcript creates exactly
\* one glyph per character of the whole transcript, in order.
C10_RestoreSpawnsWhole ==
    [][ ( /\ EffectRan
          /\ sceneVersion' # tps.lastSceneVersionRef
          /\ Len(finalizedTranscript') > 0 )
        => /\ CreatedSpell(finalizedTranscript')
           /\ tps'.particles = tps.particles \o Created ]_vars

\* C10 witness: the reset that follows a restore from the palace has spawned
\* the restored transcript
C10_Witness ==
    /\ last.op = "Resolve"
    /\ last.run.mode = "restore"
    /\ Len(last.run.created) = Len(finalizedTranscript)
    /\ particles.by = "restore"
    /\ finalizedTranscript = savedMemories[1].transcriptSnapshot

\* C11: when the transcript changes to a non-empty text that does not start
\* with the text processed before, and the scene version is the one processed
\* before, the effect creates one glyph per character of the whole new text,
\* in order; unless the list exceeds MAX_CHARS, every glyph that was live
\* stays in the list and keeps its physics entry.
C11_ChangeSpawnsWhole ==
    [][ ( /\ EffectRan
          /\ Len(finalizedTranscript') > 0
          /\ ~StartsWith(finalizedTranscript', tps.lastTranscriptRef)
          /\ sceneVersion' = tps.lastSceneVersionRef )
        => /\ CreatedSpell(finalizedTranscript')
           /\ Len(tps.particles \o Created) <= MAX_CHARS =>
                 /\ tps'.particles = tps.particles \o Created
                 /\ tps.physicsState \subseteq tps'.physicsState
                 /\ tps.textRefs \subseteq tps'.textRefs ]_vars

\* C11 witness: a two-character text replaced a different one-character text,
\* whose glyph is still live
C11_Witness ==
    /\ last.run.mode = "full"
    /\ Len(last.run.created) = 2
    /\ Len(tps.particles) = 3
    /\ tps.particles[1] \notin Range(last.run.created)

\* the physics loop moves glyph id on a tick
Stepped(id) ==
    /\ Mounted
    /\ ~readingMode
    /\ id \in tps.physicsState \cap tps.textRefs

\* C12: on a render tick with reading mode off, a flying glyph that has a
\* render handle docks if the time since flyStartTime has reached the flight
\* duration (so also whenever it exceeds the hard timeout), and does not dock
\* before; and as ticks keep occurring every flying glyph docks, unless
\* reading mode is on or the glyph has been removed.
C12_FlyReachesDock ==
    /\ [][ last'.op = "Tick" =>
            \A id \in DOMAIN tps.glyphs :
                (Stepped(id) /\ tps.glyphs[id].phase = "fly") =>
                    LET elapsed == now' - tps.glyphs[id].flyStartTime
                    IN /\ elapsed >= duration => tps'.glyphs[id].phase = "dock"
                       /\ elapsed > hardTimeout => tps'.glyphs[id].phase = "dock"
                       /\ elapsed < duration => tps'.glyphs[id].phase = "fly" ]_vars
    /\ \A id \in 1..MaxGlyphs :
          (id \in DOMAIN tps.glyphs /\ tps.glyphs[id].phase = "fly")
              ~> \/ id \notin DOMAIN tps.glyphs
                 \/ tps.glyphs[id].phase = "dock"
                 \/ ~Stepped(id)

\* C12 witness: a glyph has docked on the tick on which its flight reached
\* the duration, before the hard timeout
C12_Witness ==
    /\ last.op = "Tick"
    /\ \E id \in DOMAIN tps.glyphs :
          /\ tps.glyphs[id].phase = "dock"
          /\ tps.glyphs[id].aim = "bezier"
          /\ now - tps.glyphs[id].flyStartTime >= duration
          /\ now - tps.glyphs[id].flyStartTime <= hardTimeout

\* C13: a glyph created as the k-th of its batch at time t has delay
\* (k - 1) * 80 ms and stays in spawn in every step that ends earlier than
\* t + 3500 ms; the step that takes it out of spawn sets flyStartTime to the
\* time of that tick plus its delay; so of two glyphs of one batch that have
\* left spawn the one created first has the earlier flyStartTime.
C13_HoldThenStaggeredFlight ==
    /\ [][ /\ \A k \in 1..Len(Created) :
                LET p == tps'.glyphs[Created[k]]
                IN /\ p.spawnTime = now'
                   /\ p.delay = (k - 1) * staggerDelay
           /\ \A id \in DOMAIN tps.glyphs \cap DOMAIN tps'.glyphs :
                LET p == tps.glyphs[id]
                    q == tps'.glyphs[id]
                IN p.phase = "spawn" =>
                     /\ now' < p.spawnTime + holdDuration => q.phase = "spawn"
                     /\ q.phase # "spawn" =>
                           /\ q.phase = "fly"
                           /\ q.flyStartTime = now' + p.delay ]_vars
    /\ [](\A a, b \in DOMAIN tps.glyphs :
            ( /\ a < b
              /\ tps.glyphs[a].spawnTime = tps.glyphs[b].spawnTime
              /\ tps.glyphs[b].delay - tps.glyphs[a].delay = (b - a) * staggerDelay
              /\ tps.glyphs[a].phase # "spawn"
              /\ tps.glyphs[b].phase # "spawn" )
            => tps.glyphs[a].flyStartTime < tps.glyphs[b].flyStartTime)

\* C13 witness: the two glyphs of one batch have just left spawn, the second
\* scheduled 80 ms after the first
C13_Witness ==
    /\ last.op = "Tick"
    /\ \E a \in DOMAIN tps.glyphs :
          /\ a + 1 \in DOMAIN tps.glyphs
          /\ tps.glyphs[a].phase = "fly"
          /\ tps.glyphs[a + 1].phase = "fly"
          /\ tps.glyphs[a].spawnTime = tps.glyphs[a + 1].spawnTime
          /\ tps.glyphs[a].flyStartTime = now
          /\ tps.glyphs[a + 1].flyStartTime = now + staggerDelay
          /\ now >= tps.glyphs[a].spawnTime + holdDuration

\* C14: a render tick taken while reading mode is on leaves every glyph as
\* it is: phase, flyStartTime and the position it is steered to.
C14_ReadingPauses ==
    [][ (last'.op = "Tick" /\ readingMode) => tps' = tps ]_vars

\* C14 witness: reading mode is on and a tick has passed a glyph's morphTime,
\* and the glyph is still in spawn
C14_Witness ==
    /\ last.op = "Tick"
    /\ readingMode
    /\ \E id \in tps.physicsState \cap tps.textRefs :
          /\ tps.glyphs[id].phase = "spawn"
          /\ now >= tps.glyphs[id].morphTime

\* C18: when the sampling started by handleUpload rejects, the point cloud
\* on display is the one that was displayed when handleUpload was called.
C18_FailedUploadKeepsCloud ==
    [][ ( /\ last.op = "Upload"
          /\ last'.op = "Reject"
          /\ pending \ pending' = {Request(requests, "upload")} )
        => particles' = shownAtUpload ]_vars

----------------------------------------------------------------------------
(* Properties of recording *)

\* C4: after the stop branch of handleToggleRecording has run, the speech
\* session is no longer listening, no chunk timer is active, and no
\* microphone stream has a live audio track.
C4_StopReleasesAll ==
    recLast = "ToggleStop" =>
        /\ recognition # "listening"
        /\ sentimentIntervalRef = 0
        /\ \A k \in 1..Len(timers) : ~timers[k].live
        /\ micStreams = {}

\* C5: when a recognition session has ended and onend has run, a session is
\* listening again if and only if isRecording is true; while isRecording is
\* true a session is listening or about to be restarted by onend, and while
\* it is false no session is listening.
C5_RestartIffRecording ==
    /\ recLast = "OnEnd" => (recognition = "listening" <=> isRecording)
    /\ isRecording => recognition \in {"listening", "stopping"}
    /\ ~isRecording => recognition # "listening"

\* an ended session was started again while recording is active, after a
\* stop and a new start
C5_Witness ==
    /\ recLast = "OnEnd"
    /\ isRecording
    /\ recognition = "listening"
    /\ Len(timers) >= 1

----------------------------------------------------------------------------
(* Properties of the gesture classifier *)

\* C6: whenever handData says that no hand is detected, its gesture is IDLE.
C6_UndetectedIsIdle ==
    (handData # Null /\ ~handData.detected) => handData.gesture = "IDLE"

\* a pinching hand has just been lost
C6_Witness ==
    /\ poll.kind = "none"
    /\ poll.prevRan = "hand"
    /\ handData # Null
    /\ ~handData.detected
    /\ handData.pinchDistance2 < 64

\* C7: a poll that detects a hand when the previous poll that ran the
\* detector found none computes velocity 0 and does not classify SWIPE.
C7_NoVelocityAcrossGap ==
    [][ (poll'.kind = "hand" /\ poll.ran = "none") =>
            /\ poll'.velocity.d2 = 0
            /\ handData'.gesture # "SWIPE" ]_vars

\* a pointing hand, edge-on, reappears after a gap at another place than the
\* one it was lost at
C7_Witness ==
    /\ poll.kind = "hand"
    /\ poll.prevRan = "none"
    /\ poll.moved
    /\ now <= 33
    /\ ExtendedFingers(poll.frame) = 1
    /\ IndexExtended(poll.frame)
    /\ Abs(PalmNormalZ(poll.frame)) <= 100
    /\ PinchDistance2(poll.frame) >= 64
    /\ handData.gesture = "IDLE"

\* C8: the label of a detected frame is PINCH if pinchDistance < 0.08;
\* otherwise OPEN if extendedFingers >= 4; otherwise CLOSED if
\* extendedFingers <= 1 and |palmNormalZ| > 0.01; otherwise SWIPE if
\* extendedFingers = 1, velocity > 0.5 and the index tip is above its PIP
\* joint by more than 0.05; otherwise IDLE.
C8_PriorityOrder ==
    poll.kind = "hand" =>
        LET lm == poll.frame
            isPinch == PinchDistance2(lm) < 64
            isOpen == ExtendedFingers(lm) >= 4
            isClosed == ExtendedFingers(lm) <= 1 /\ Abs(PalmNormalZ(lm)) > 100
            isSwipe == /\ ExtendedFingers(lm) = 1
                       /\ Fast(poll.velocity)
                       /\ lm[6].y - lm[8].y > 5
            g == handData.gesture
        IN /\ handData.detected
           /\ g \in {"PINCH", "OPEN", "CLOSED", "SWIPE", "IDLE"}
           /\ isPinch => g = "PINCH"
           /\ (~isPinch /\ isOpen) => g = "OPEN"
           /\ (~isPinch /\ ~isOpen /\ isClosed) => g = "CLOSED"
           /\ (~isPinch /\ ~isOpen /\ ~isClosed /\ isSwipe) => g = "SWIPE"
           /\ (~isPinch /\ ~isOpen /\ ~isClosed /\ ~isSwipe) => g = "IDLE"

\* an open hand with the thumb on the index tip is a PINCH
C8_Witness ==
    /\ poll.kind = "hand"
    /\ ExtendedFingers(poll.frame) >= 4
    /\ handData.gesture = "PINCH"

----------------------------------------------------------------------------
(* Properties of the sampler *)

\* C15: the sampler never holds more than targetCount points; it resolves
\* with at least one point and at most targetCount, and with fewer than
\* targetCount only when all 200 * targetCount attempts were made.
C15_CountWithinTarget ==
    /\ sampler.status \in {"loop", "resolved"} =>
          Len(sampler.particles) <= sampler.targetCount
    /\ sampler.status = "resolved" =>
          /\ Len(sampler.particles) >= 1
          /\ Len(sampler.particles) < sampler.targetCount =>
                sampler.attempts = 200 * sampler.targetCount

\* C15 witness: the budget ran out with one sampled point of two
C15_Witness ==
    /\ sampler.status = "resolved"
    /\ sampler.targetCount = 2
    /\ Len(sampler.particles) = 1
    /\ sampler.particles[1].r # 255
    /\ sampler.attempts = 400

\* C16: when the loop ends with no point accepted, the result is the single
\* white point at the origin whose original position is its position; and
\* every sampled point comes from a pixel with alpha above 20.
C16_FallbackPoint ==
    /\ [][ ( /\ sampler.status = "loop"
             /\ sampler'.status = "resolved"
             /\ Len(sampler.particles) = 0 )
           => sampler'.particles =
                << [ x |-> 0, y |-> 0, z |-> 0,
                     originalX |-> 0, originalY |-> 0, originalZ |-> 0,
                     r |-> 255, g |-> 255, b |-> 255, random |-> 0 ] >> ]_vars
    /\ [][ ( /\ sampler.status = "loop"
             /\ sampler'.status = "loop"
             /\ Len(sampler'.particles) > Len(sampler.particles) )
           => \E px \in Pixels :
                /\ sampler.image[px].a > 20
                /\ sampler'.particles[Len(sampler'.particles)].x = px.x - 400
                /\ sampler'.particles[Len(sampler'.particles)].r = sampler.image[px].r ]_vars
    /\ []( ( /\ sampler.status = "resolved"
             /\ \A px \in Pixels : sampler.image[px].a <= 20 )
           => /\ Len(sampler.particles) = 1
              /\ sampler.particles[1].x = 0
              /\ sampler.particles[1].y = 0
              /\ sampler.particles[1].r = 255 )

\* C16 witness: an image whose pixels all have alpha 20 has resolved with the
\* fallback point after the whole budget
C16_Witness ==
    /\ sampler.status = "resolved"
    /\ \A px \in Pixels : sampler.image[px].a = 20
    /\ sampler.attempts = 200 * sampler.targetCount
    /\ Len(sampler.particles) = 1
    /\ sampler.particles[1].x = 0
    /\ sampler.particles[1].originalX = 0

\* C17: the loop makes at most 200 * targetCount attempts, makes an attempt
\* only while fewer than targetCount points are collected, counts every
\* attempt, and ends.
C17_LoopTerminates ==
    /\ [](sampler.status = "loop" => sampler.attempts <= 200 * sampler.targetCount)
    /\ [][ (sampler.status = "loop" /\ sampler'.status = "loop") =>
             /\ Len(sampler.particles) < sampler.targetCount
             /\ sampler.attempts < 200 * sampler.targetCount
             /\ sampler'.attempts = sampler.attempts + 1 ]_vars
    /\ (sampler.status = "loop") ~> (sampler.status = "resolved")

\* C17 witness: the loop has ended before the budget because targetCount
\* points were collected
C17_Witness ==
    /\ sampler.status = "resolved"
    /\ sampler.targetCount = 2
    /\ Len(sampler.particles) = 2
    /\ sampler.attempts > 2
    /\ sampler.attempts < 400

----------------------------------------------------------------------------
(* Properties of the voice search *)

\* C19: for every query and memory, matchScore = min(1, hits / max(1, 0.5 x
\* keywordCount)), where hits counts the keywords that occur as a substring of
\* the lower-cased transcript plus sentiment label; so matchScore lies in
\* [0,1], is 0 exactly when no keyword hits, and is 0 for every memory when
\* there is no active query.
C19_ScoreFormula ==
    LET active == viewMode = "PALACE" /\ SearchQuery # << >>
        keywords == Keywords(SearchQuery)
        keywordCount == Cardinality(keywords)
        processed == processedMemories
    IN /\ Len(processed) = Len(savedMemories)
       /\ \A k \in 1..Len(processed) :
            LET memory == processed[k]
                score == memory.matchScore
                hits == Cardinality({ w \in keywords : Includes(Content(memory), w) })
            IN /\ score.den > 0
               /\ 0 <= score.num /\ score.num <= score.den
               /\ ~active => score.num = 0
               /\ active => (score.num = 0 <=> hits = 0)
               /\ active =>
                    IF keywordCount <= 2
                    THEN score.num = score.den * Min(1, hits)
                    ELSE IF 2 * hits >= keywordCount
                         THEN score.num = score.den
                         ELSE score.num * keywordCount = 2 * hits * score.den

\* a search in the palace that gives one memory a partial score and another
\* one a score that had to be clamped
C19_Witness ==
    LET processed == processedMemories
        keywords == Keywords(SearchQuery)
    IN /\ viewMode = "PALACE"
       /\ \E k \in 1..Len(processed) :
             /\ 0 < processed[k].matchScore.num
             /\ processed[k].matchScore.num < processed[k].matchScore.den
       /\ \E k \in 1..Len(processed) :
             2 * Hits(processed[k], keywords) > Max(2, Cardinality(keywords))

\* C20: the processed list is ordered by non-increasing matchScore whenever a
\* memory has a positive score, and by non-increasing timestamp when none has
\* (a query that matches nothing included); it holds the saved memories.
C20_Ordering ==
    LET processed == processedMemories
        n == Len(processed)
        anyPositive == \E k \in 1..n : processed[k].matchScore.num > 0
    IN /\ n = Len(savedMemories)
       /\ \A k \in 1..n :
            Cardinality({ i \in 1..n :
                [processed[i] EXCEPT !.matchScore = ZeroScore] = savedMemories[k] })
              = Cardinality({ i \in 1..n : savedMemories[i] = savedMemories[k] })
       /\ \A i, j \in 1..n :
            i < j =>
              IF anyPositive
              THEN ScoreDiff(processed[i].matchScore, processed[j].matchScore) >= 0
              ELSE processed[i].timestamp >= processed[j].timestamp

\* a search whose scores put an older memory before a newer one, and two
\* unmatched memories behind it
C20_Witness ==
    LET processed == processedMemories
    IN /\ viewMode = "PALACE"
       /\ Len(processed) = 3
       /\ ScoreDiff(processed[1].matchScore, processed[2].matchScore) > 0
       /\ processed[2].matchScore.num > 0
       /\ processed[1].timestamp < processed[2].timestamp
       /\ processed[2].timestamp < processed[3].timestamp

\* a query that matches nothing leaves the palace in order of recency
C20_FallbackWitness ==
    /\ viewMode = "PALACE"
    /\ Keywords(SearchQuery) # {}
    /\ Len(savedMemories) = 3
    /\ processedMemories = savedMemories

\* C21: a query that equals a memory's full transcript gives that memory a
\* score of at least 0.9, and the memory comes before every memory of score 0.
C21_ExactQueryRanksFirst ==
    LET processed == processedMemories
    IN (viewMode = "PALACE" /\ SearchQuery # << >>) =>
          \A k \in 1..Len(processed) :
             processed[k].transcriptSnapshot = SearchQuery =>
                /\ 10 * processed[k].matchScore.num >= 9 * processed[k].matchScore.den
                /\ \A j \in 1..Len(processed) :
                      processed[j].matchScore.num = 0 => k < j

\* C23: the query is lower-cased and stripped of punctuation; with a CJK
\* character in it the keywords are every single non-blank character, every
\* adjacent two-character bigram and every whitespace-delimited token, minus
\* the stop words, without duplicates; otherwise they are the
\* whitespace-delimited tokens minus the stop words, without duplicates.
C23_KeywordExtraction ==
    LET lowered == [i \in 1..Len(SearchQuery) |->
                       IF \E c \in 1..26 : UpperCase[c] = SearchQuery[i]
                       THEN LowerCase[CHOOSE c \in 1..26 : UpperCase[c] = SearchQuery[i]]
                       ELSE SearchQuery[i]]
        kept == { i \in 1..Len(lowered) : lowered[i] \notin Punctuation }
        \* the query without its punctuation: the kept characters in order
        norm == [k \in 1..Cardinality(kept) |->
                    lowered[CHOOSE i \in kept : Cardinality({ j \in kept : j <= i }) = k]]
        n == Len(norm)
        IsToken(i, j) ==
            /\ i <= j
            /\ \A k \in i..j : norm[k] # " "
            /\ i = 1 \/ norm[i - 1] = " "
            /\ j = n \/ norm[j + 1] = " "
        tokens == { SubSeq(norm, p[1], p[2]) :
                       p \in { ij \in (1..n) \X (1..n) : IsToken(ij[1], ij[2]) } }
        singles == { << norm[i] >> : i \in { k \in 1..n : norm[k] # " " } }
        bigrams == { << norm[i], norm[i + 1] >> : i \in 1..(n - 1) }
        expected == IF \E i \in 1..n : norm[i] \in Han
                    THEN (singles \cup bigrams \cup tokens) \ STOP_WORDS
                    ELSE tokens \ STOP_WORDS
    IN Keywords(SearchQuery) = expected

\* a spoken query with a CJK character, a blank and a stop word: its keywords
\* are one character and two bigrams
C23_Witness ==
    /\ viewMode = "PALACE"
    /\ \E i \in 1..Len(SearchQuery) : SearchQuery[i] \in Han
    /\ \E i \in 1..Len(SearchQuery) : << SearchQuery[i] >> \in STOP_WORDS
    /\ \E w \in Keywords(SearchQuery) : Len(w) = 2 /\ w[2] = " "
    /\ Cardinality(Keywords(SearchQuery)) = 3

\* a spoken query with capitals and a comma, split into three lower-case tokens
C23_TokenWitness ==
    /\ viewMode = "PALACE"
    /\ \E i \in 1..Len(SearchQuery) : SearchQuery[i] \in Punctuation
    /\ Keywords(SearchQuery) = { <<"s", "e", "a">>, <<"s", "u", "n">>, <<"s", "k", "y">> }

----------------------------------------------------------------------------
(* Properties of the palace layout *)

\* C22: a query that is empty or has no keyword (only stop words) is no active
\* search: every memory gets matchScore 0, the list is in order of recency and
\* holds every saved memory, and the palace lays the memories out in gallery
\* mode.
C22_NoKeywordsNoSearch ==
    LET processed == processedMemories
        n == Len(processed)
    IN (viewMode = "PALACE" /\ (SearchQuery = << >> \/ Keywords(SearchQuery) = {})) =>
          /\ n = Len(savedMemories)
          /\ \A k \in 1..n : processed[k].matchScore.num = 0
          /\ \A k \in 1..n : \E j \in 1..n : savedMemories[j].id = processed[k].id
          /\ \A i, j \in 1..n : i < j => processed[i].timestamp >= processed[j].timestamp
          /\ \A k \in 1..n :
                /\ processed[k].id \in DOMAIN targetPositions
                /\ targetPositions[processed[k].id].kind = "spiral"
                /\ targetPositions[processed[k].id].radius = 5000 + 4000 * (k - 1)

\* in the palace a query of stop words only is spoken over three memories
C22_Witness ==
    /\ viewMode = "PALACE"
    /\ SearchQuery # << >>
    /\ Keywords(SearchQuery) = {}
    /\ Len(savedMemories) = 3
    /\ \A m \in Range(savedMemories) : targetPositions[m.id].kind = "spiral"

\* C24: in focus mode the matched memory of rank i (0 the best) is at slot
\* 0, +1, -1, +2, -2, ...: no two matched memories share a slot, |slot| does
\* not decrease with the rank, and a slot nearer to 0 is never farther in depth
\* nor lower in height than one farther from 0.
C24_AlternatingSlots ==
    LET matches == Matches(processedMemories)
        n == Len(matches)
        pos == [k \in 1..n |-> targetPositions[matches[k].id]]
        slot == [k \in 1..n |-> pos[k].x \div spread]
    IN (viewMode = "PALACE" /\ n > 0) =>
          /\ \A k \in 1..n :
                /\ pos[k].kind = "focus"
                /\ pos[k].x = slot[k] * spread
                /\ slot[k] = IF k = 1 THEN 0
                             ELSE IF k % 2 = 0 THEN k \div 2 ELSE -((k - 1) \div 2)
          /\ \A j, k \in 1..n :
                /\ j < k => slot[j] # slot[k] /\ Abs(slot[j]) <= Abs(slot[k])
                /\ Abs(slot[j]) < Abs(slot[k]) => pos[j].z >= pos[k].z /\ pos[j].y >= pos[k].y

\* a search with five matches or more: the ranks 3 and 4 are at the slots +2
\* and -2, behind and below the centre
C24_Witness ==
    LET matches == Matches(processedMemories)
    IN /\ viewMode = "PALACE"
       /\ Len(matches) >= 5
       /\ targetPositions[matches[4].id].x = 2 * spread
       /\ targetPositions[matches[5].id].x = -(2 * spread)
       /\ targetPositions[matches[5].id].z < targetPositions[matches[1].id].z

\* the room two bubbles need between their centres: the halo ring of a dimmed
\* bubble (3.2) and that of a matched one, which is scaled by 1.2
Clearance == 3200 + (3200 * 12) \div 10

\* in focus mode every memory without a match has its radius in [20,30] and its
\* depth in [-25,-15], and is a bubble's width away from every matched memory,
\* in depth or sideways (|x| of a background memory is at most its radius)
BackgroundBandAndClearance ==
    LET processed == processedMemories
        matches == Matches(processed)
        nonMatches == NonMatches(processed)
    IN (viewMode = "PALACE" /\ Len(matches) > 0) =>
          \A k \in 1..Len(nonMatches) :
             LET p == targetPositions[nonMatches[k].id]
             IN /\ p.kind = "background"
                /\ 20000 <= p.radius /\ p.radius <= 30000
                /\ -25000 <= p.z /\ p.z <= -15000
                /\ \A j \in 1..Len(matches) :
                      LET q == targetPositions[matches[j].id]
                      IN /\ q.kind = "focus"
                         /\ \/ q.z - p.z >= Clearance
                            \/ Abs(q.x) - p.radius >= Clearance

\* the placement p lies within the extent of the focused placements: matched
\* memories to its left and to its right, and one at least as deep (the best
\* match, at depth 6, is always nearer)
AmongFocused(p, focused) ==
    /\ \E q \in focused : q.x <= -p.radius
    /\ \E q \in focused : q.x >= p.radius
    /\ \E q \in focused : q.z <= p.z

\* C25: in focus mode every memory without a match is in the deep-background
\* band (radius in [20,30], depth z in [-25,-15]), and its position never
\* falls among the positions of the matched memories, for any number of
\* matches.
C25_BackgroundNeverAmongFocused ==
    LET processed == processedMemories
        matches == Matches(processed)
        nonMatches == NonMatches(processed)
        focused == { targetPositions[matches[j].id] : j \in 1..Len(matches) }
    IN (viewMode = "PALACE" /\ Len(matches) > 0) =>
          \A k \in 1..Len(nonMatches) :
             LET p == targetPositions[nonMatches[k].id]
             IN /\ p.kind = "background"
                /\ 20000 <= p.radius /\ p.radius <= 30000
                /\ -25000 <= p.z /\ p.z <= -15000
                /\ ~AmongFocused(p, focused)

\* a search with few matches: every background memory is deeper than the
\* whole focused row
FewMatchesWitness ==
    LET processed == processedMemories
        matches == Matches(processed)
        nonMatches == NonMatches(processed)
    IN /\ viewMode = "PALACE"
       /\ Len(matches) = 3
       /\ Len(nonMatches) = 2
       /\ \A j \in 1..3 : \A k \in 1..2 :
             targetPositions[matches[j].id].z > targetPositions[nonMatches[k].id].z

\* C26: in gallery mode (no memory with a positive score) the K memories get K
\* distinct angular positions and a radius that grows strictly with the list
\* index; every memory of the list gets a placement.
C26_GallerySpiral ==
    LET processed == processedMemories
        n == Len(processed)
        pos == [k \in 1..n |-> targetPositions[processed[k].id]]
    IN (viewMode = "PALACE" /\ ~HasActiveSearch(processed)) =>
          /\ \A k \in 1..n : processed[k].id \in DOMAIN targetPositions
          /\ \A k \in 1..n : pos[k].kind = "spiral"
          /\ \A i, j \in 1..n :
                i < j =>
                   /\ pos[i].radius < pos[j].radius
                   \* the angles do not differ by a multiple of 2 pi
                   /\ pos[i].angle # pos[j].angle
                   /\ \A turns \in 1..((pos[j].angle - pos[i].angle) \div 6283 + 1) :
                         \/ (pos[j].angle - pos[i].angle) * 1000 < turns * TwoPi.low
                         \/ (pos[j].angle - pos[i].angle) * 1000 > turns * TwoPi.high

\* the crowded palace in gallery mode, after a query that matches nothing
C26_Witness ==
    /\ viewMode = "PALACE"
    /\ Keywords(SearchQuery) # {}
    /\ Len(savedMemories) > 5
    /\ ~HasActiveSearch(processedMemories)
    /\ \A m \in Range(savedMemories) : targetPositions[m.id].kind = "spiral"

----------------------------------------------------------------------------
(* Properties of the sentiment analysis *)

\* C28: a sentiment result of NEUTRAL with zero confidence (the analysis was
\* unavailable or failed) never changes the current sentiment; it never
\* overwrites a POSITIVE or NEGATIVE label.
C28_UnavailableKeepsSentiment ==
    [][(analysing' = analysing - 1 /\ recLast' = "AnalysisUnavailable")
          => sentiment' = sentiment]_vars

\* an analysis failed after a label other than NEUTRAL was heard
C28_Witness ==
    /\ recLast = "AnalysisUnavailable"
    /\ sentiment \in {"positive", "negative"}

----------------------------------------------------------------------------
(* Properties of the speech events *)

\* C27: a speech event with non-final results replaces the interim transcript
\* by their text; each final result appends exactly one voice-memory record
\* (its text, the current sentiment, the time) at the end of the list, and an
\* event with final results only clears the interim transcript; the records
\* that exist are neither modified nor reordered.
C27_SpeechEvents ==
    [][\A finals \in FinalResults, interim \in InterimResults :
          SpeechResults(finals, interim) =>
             /\ Len(voiceMemories') = Len(voiceMemories) + Len(finals)
             /\ \A k \in 1..Len(voiceMemories) : voiceMemories'[k] = voiceMemories[k]
             /\ \A k \in 1..Len(finals) :
                   LET record == voiceMemories'[Len(voiceMemories) + k]
                   IN /\ record.transcript = finals[k]
                      /\ record.sentiment = sentiment
                      /\ record.timestamp = now
             /\ interim # << >> => interimTranscript' = interim
             /\ (interim = << >> /\ finals # << >>) => interimTranscript' = << >>
    ]_vars

\* after a label was heard and an interim text shown, a final result was
\* appended behind an older record and cleared the interim text
C27_Witness ==
    /\ last.op = "SpeechResults"
    /\ Len(voiceMemories) >= 2
    /\ voiceMemories[Len(voiceMemories)].sentiment # "neutral"
    /\ voiceMemories[1].timestamp < voiceMemories[Len(voiceMemories)].timestamp
    /\ interimTranscript = << >>

\* an event with non-final results left their text as the interim transcript,
\* behind one record
C27_InterimWitness ==
    /\ last.op = "SpeechResults"
    /\ interimTranscript = <<"Y", "O">>
    /\ Len(voiceMemories) = 1

----------------------------------------------------------------------------
(* Properties of the detection loop *)

\* C29: a detector error or a result without landmarks never leaves the poll
\* as an exception: the poll ends with the hand state not detected (label
\* IDLE), or with no hand state if no hand was seen before, and the loop has
\* scheduled its next poll.
C29_NoHandPollEndsIdle ==
    poll.kind \in {"none", "thrown"} =>
        /\ poll.kind = "none"
        /\ poll.scheduled
        /\ handData = Null \/ (~handData.detected /\ handData.gesture = "IDLE")

\* the detector threw on the frame after an open hand
C29_Witness ==
    /\ poll.kind = "none"
    /\ poll.outcome = "error"
    /\ poll.prevRan = "hand"
    /\ poll.scheduled
    /\ handData # Null
    /\ ~handData.detected
    /\ handData.gesture = "IDLE"
    /\ handData.pinchDistance2 >= 64

\* the detector returned a result without landmarks before any hand was seen
C29_EmptyWitness ==
    /\ poll.kind = "none"
    /\ poll.outcome = "empty"
    /\ poll.scheduled
    /\ handData = Null

\* the fields of GestureState that a frame with a hand gives a value
FrameFields == {"position", "palmCenter", "pointer", "rotation", "pinchDistance2"}

\* C30: every poll overwrites GestureState as a whole from the current frame:
\* after a poll with a hand every field is the value of that frame, and after
\* a poll without a hand no field still holds the value computed from the
\* frame of an earlier poll.
C30_PollOverwritesWhole ==
    [][ /\ poll'.kind = "hand" =>
             \A field \in FrameFields :
                handData'[field] =
                   Detected(poll'.frame, Pointer(poll'.frame), "IDLE")[field]
        /\ (poll'.kind = "none" /\ poll.ran = "hand" /\ handData' # Null) =>
             \A field \in FrameFields :
                handData'[field] #
                   Detected(poll.frame, Pointer(poll.frame), "IDLE")[field]
    ]_vars

----------------------------------------------------------------------------
(* ParticleScene: the disruption uniform *)

\* C31: the blend rate of a frame whose target is above the current
\* disruption is larger than the blend rate of a frame whose target is below
\* it: the scatter engages faster than it relaxes.
C31_EngageFasterThanRelax ==
    (uniforms.engageSpeed # 0 /\ uniforms.relaxSpeed # 0)
        => uniforms.engageSpeed > uniforms.relaxSpeed

\* C32: outside reading mode, a frame with the sentiment NEGATIVE or with a
\* detected hand showing OPEN has a disruption target above zero, whatever
\* the hand is otherwise.
C32_NegativeOrOpenDisrupts ==
    ( /\ last.op = "SceneFrame"
      /\ ~readingMode
      /\ \/ sentiment = "negative"
         \/ (handData # Null /\ handData.detected /\ handData.gesture = "OPEN") )
        => uniforms.disruptionTarget > 0

----------------------------------------------------------------------------
(* handleSaveMemory: the palette *)

\* C34: every saved memory carries a palette of exactly three colours,
\* whatever the number of points of the cloud was when it was saved.
C34_PaletteOfThree ==
    \A k \in 1..Len(savedMemories) : Len(savedMemories[k].palette) = 3

\* a cloud of one point was saved: the second and the third chunk are empty
C34_Witness ==
    /\ last.op = "SaveMemory"
    /\ savedMemories[1].palette
          = << Hex(255, 128, 0), Hex(255, 255, 255), Hex(255, 255, 255) >>

\* the empty cloud was saved
C34_EmptyWitness ==
    /\ last.op = "SaveMemory"
    /\ particles = NoCloud
    /\ savedMemories[1].palette
          = << Hex(255, 255, 255), Hex(204, 204, 204), Hex(153, 153, 153) >>

\* a cloud of two points was saved
C34_PairWitness ==
    /\ last.op = "SaveMemory"
    /\ savedMemories[1].palette = << Hex(200, 100, 50), Hex(10, 10, 10), Hex(255, 255, 255) >>

\* a cloud of 31 points was saved: chunks of 11 points, of which every tenth
\* is sampled
C34_ManyWitness ==
    /\ last.op = "SaveMemory"
    /\ savedMemories[1].palette = << Hex(96, 243, 12), Hex(220, 227, 27), Hex(8, 254, 1) >>

----------------------------------------------------------------------------
(* savedMemories *)

\* C33: a saved memory is never changed: every step leaves the stored list as
\* it is or puts one new memory in front of it, whether the step is a search,
\* a layout, a restore or a later save, and the stored match score of every
\* memory stays 0.
C33_SavedNeverChanged ==
    [][ /\ \/ savedMemories' = savedMemories
           \/ /\ Len(savedMemories') = Len(savedMemories) + 1
              /\ Tail(savedMemories') = savedMemories
        /\ \A k \in 1..Len(savedMemories') :
              savedMemories'[k].matchScore = [num |-> 0, den |-> 1]
      ]_vars

\* a second memory has been saved in the palace while the spoken query
\* matches a memory
C33_Witness ==
    /\ Len(savedMemories) = 2
    /\ last.op = "SaveMemory"
    /\ viewMode = "PALACE"
    /\ \E m \in Range(processedMemories) : m.matchScore.num > 0
    /\ savedMemories[2].timestamp < savedMemories[1].timestamp

----------------------------------------------------------------------------
(* processImageToParticles: depth *)

\* the points of the followed call that came from a pixel
AcceptedPoints ==
    IF sampler.status = "loop" THEN Range(sampler.particles)
    ELSE IF sampler.status = "resolved" /\ sampler.particles # << FallbackPoint >>
         THEN Range(sampler.particles)
    ELSE {}

\* C35: the depth of a sampled point is monotonically non-decreasing in the
\* luminance 0.21 R + 0.72 G + 0.07 B of its pixel: of any two accepted points
\* of one sampling run, the one of no lower luminance has no lower depth.
C35_DepthFollowsLuminance ==
    \A p \in AcceptedPoints, q \in AcceptedPoints :
       Luminance(p) <= Luminance(q) => p.z <= q.z

\* a resolved run with two accepted points of different luminance
C35_Witness ==
    /\ sampler.status = "resolved"
    /\ \E p \in AcceptedPoints, q \in AcceptedPoints :
          Luminance(p) < Luminance(q) /\ p.z < q.z

----------------------------------------------------------------------------
(* TextParticleSystem: dock slots and the physics map *)

\* C36: the dock slots come from the running character counter, ring
\* floor(g / 50) and slot g mod 50 for the glyph of global index g, so that no
\* two glyphs that are rendered at the same time have the same ring and slot,
\* across batches, evictions and restores.
C36_DockSlotsDistinct ==
    \A a \in Range(tps.particles), b \in Range(tps.particles) :
       a # b => << tps.glyphs[a].ringIndex, tps.glyphs[a].localIndex >>
                   # << tps.glyphs[b].ringIndex, tps.glyphs[b].localIndex >>

\* C39: the ids of the physics map are the ids of the rendered glyphs, after
\* every sequence of spawn batches, evictions and hard resets.
C39_PhysicsMapIsRendered ==
    tps.physicsState = Range(tps.particles)

\* a batch has just evicted glyphs from a full list
C39_Witness ==
    /\ Len(last.run.evicted) > 0
    /\ Cardinality(tps.physicsState) = MAX_CHARS
    /\ tps.particles[1] \in tps.physicsState
    /\ last.run.evicted[1] \notin tps.physicsState

\* a hard reset has just emptied a list with glyphs
C39_ResetWitness ==
    /\ last.run.mode = "reset"
    /\ nextId > 0
    /\ tps.physicsState = {}
    /\ tps.particles = << >>

----------------------------------------------------------------------------
(* handleToggleRecording against the microphone *)

\* C37: under every interleaving of clicks on the record toggle with the
\* acquisition of the microphone, once no getUserMedia call is outstanding and
\* isRecording is false, no chunk timer is scheduled and no MediaRecorder is
\* recording.
C37_IdleAfterSettled ==
    (acquiring = 0 /\ ~isRecording) =>
        /\ \A k \in 1..Len(timers) : ~timers[k].live
        /\ \A k \in 1..Len(recorders) : recorders[k].state # "recording"

----------------------------------------------------------------------------
(* AudioStreamer *)

\* C38: after any sequence of startRecording and stopRecording calls whose
\* last call is stopRecording, and once every startRecording call has run to
\* its end, no microphone stream, no processor node and no audio context
\* remains open.
C38_StopClosesAll ==
    (streamer.lastCall = "stop" /\ streamer.waiting = {} /\ streamer.asking = {}) =>
        /\ streamer.streams = {}
        /\ streamer.processors = {}
        /\ streamer.contexts = {}

----------------------------------------------------------------------------
(* MemoryPalace: gesture control *)

C40_PanWitness ==
    /\ last.op = "PalaceFrame"
    /\ gestureState.first
    /\ gestureState.isPanning
    /\ gestureState.targetScale # 1000

\* the scale has been held at the upper limit
C40_UpperWitness == gestureState.targetScale = 3000 /\ gestureState.scale > 1000

\* the scale has been held at the lower limit
C40_LowerWitness == gestureState.targetScale = 300 /\ gestureState.scale < 1000

====
